---- MODULE Spec2Model ----
(***************************************************************************)
(* Chess-Scan: the FEN-editing state machine of src/src/App.jsx.           *)
(*                                                                         *)
(* A text (a JavaScript string) is a sequence of one-character strings, so *)
(* that split, join, the rank scanner and the run-length encoder are       *)
(* computed character by character, as the code computes them.             *)
(*                                                                         *)
(* The React state `game` is written by the handlers and never read by     *)
(* any of them (only its initial fen() seeds `fen`), so it is not a        *)
(* variable here; `isBoardFlipped` is only ever set to false.              *)
(***************************************************************************)
EXTENDS Integers, Sequences, FiniteSets, TLC

VARIABLES
    fen,              \* useState: the current FEN text
    processingError,  \* useState: the message slot ("null" when empty)
    op,               \* the last handler call: its name, arguments, return value
                      \* and the URLs it opened
    input,            \* the FEN text the run started from
    fuel,             \* handler calls left to explore
    scan              \* the image uploads: the processing flag, the cooldown
                      \* and the calls of handleImageUpload in flight

vars == <<fen, processingError, op, input, fuel, scan>>

(***************************************************************************)
(* Bounds of the model.                                                    *)
(***************************************************************************)
\* handler calls explored from the initial position of the editor
MaxSteps == 2

(***************************************************************************)
(* Characters.                                                             *)
(***************************************************************************)
LowerChars == <<"a","b","c","d","e","f","g","h","i","j","k","l","m",
                "n","o","p","q","r","s","t","u","v","w","x","y","z">>
UpperChars == <<"A","B","C","D","E","F","G","H","I","J","K","L","M",
                "N","O","P","Q","R","S","T","U","V","W","X","Y","Z">>
DigitChars == <<"0","1","2","3","4","5","6","7","8","9">>

Range(s) == {s[i] : i \in DOMAIN s}

UpperSet == Range(UpperChars)
LowerSet == Range(LowerChars)
DigitSet == Range(DigitChars)
Digit18Set == {"1","2","3","4","5","6","7","8"}

LowerOf == [c \in UpperSet |-> LowerChars[CHOOSE i \in 1..26 : UpperChars[i] = c]]
UpperOf == [c \in LowerSet |-> UpperChars[CHOOSE i \in 1..26 : LowerChars[i] = c]]
DigitValue == [c \in DigitSet |-> (CHOOSE i \in 1..10 : DigitChars[i] = c) - 1]

\* char >= 'A' && char <= 'Z'
IsUpper(c) == c \in UpperSet
\* char >= 'a' && char <= 'z'
IsLower(c) == c \in LowerSet
\* char >= '1' && char <= '8'
IsDigit18(c) == c \in Digit18Set

toLowerCase(c) == IF IsUpper(c) THEN LowerOf[c] ELSE c
toUpperCase(c) == IF IsLower(c) THEN UpperOf[c] ELSE c

\* parseInt(char, 10) of one decimal digit
parseInt(c) == DigitValue[c]
\* the text of a number 0..9, as string concatenation appends it
NumText(n) == DigitChars[n + 1]

Min(a, b) == IF a < b THEN a ELSE b

(***************************************************************************)
(* Texts: split and join.                                                  *)
(***************************************************************************)
\* String.prototype.split(sep) with a one-character separator: the pieces
\* between consecutive occurrences of sep, empty pieces included
split(s, sep) ==
    LET at == {i \in 1..Len(s) : s[i] = sep}
        n == Cardinality(at)
        \* the position of the k-th separator; 0 and Len(s) + 1 close the ends
        pos(k) == IF k = 0 THEN 0
                  ELSE IF k = n + 1 THEN Len(s) + 1
                  ELSE CHOOSE i \in at : Cardinality({j \in at : j < i}) = k - 1
    IN [k \in 1..(n + 1) |-> SubSeq(s, pos(k - 1) + 1, pos(k) - 1)]

RECURSIVE JoinFrom(_, _, _)
JoinFrom(parts, sep, i) ==
    IF i > Len(parts) THEN <<>>
    ELSE IF i = Len(parts) THEN parts[i]
    ELSE parts[i] \o <<sep>> \o JoinFrom(parts, sep, i + 1)

\* Array.prototype.join(sep)
join(parts, sep) == JoinFrom(parts, sep, 1)

\* a || b on texts: the empty text is falsy
OrElse(a, b) == IF a = <<>> THEN b ELSE a

\* Array.prototype.reverse, and split('').reverse().join('') on a text
Reverse(s) == [i \in 1..Len(s) |-> s[Len(s) + 1 - i]]

(***************************************************************************)
(* Program constants.                                                      *)
(***************************************************************************)
DEFAULT_FEN_PARTS == << <<>>, <<"w">>, <<"-">>, <<"-">>, <<"0">>, <<"1">> >>

pieceTypeToFEN == [pawn |-> "p", rook |-> "r", knight |-> "n",
                   bishop |-> "b", queen |-> "q", king |-> "k"]

fenToPieceType == [p |-> "pawn", r |-> "rook", n |-> "knight",
                   b |-> "bishop", q |-> "queen", k |-> "king"]

PIECE_TYPES == <<"p", "n", "b", "r", "q", "k">>
PIECE_COLORS == <<"w", "b">>

\* an empty square of the board array (null in the code)
Null == [type |-> "none", color |-> "none"]

\* the pieces the palette offers: {type: fenToPieceType[type], color}
PalettePieces == {[type |-> fenToPieceType[t], color |-> c] :
                     t \in Range(PIECE_TYPES), c \in Range(PIECE_COLORS)}

Files == <<"a","b","c","d","e","f","g","h">>
FileSet == Range(Files)
\* file.charCodeAt(0) - 97
FileIndex == [c \in FileSet |-> (CHOOSE i \in 1..8 : Files[i] = c) - 1]
\* the 64 squares in algebraic notation, as two-character texts
AllSquares == {<<Files[f], NumText(r)>> : f \in 1..8, r \in 1..8}

(***************************************************************************)
(* The state of the image uploads (src/src/App.jsx:45-54).                 *)
(***************************************************************************)
\* const API_CALL_COOLDOWN = 1000, in milliseconds
API_CALL_COOLDOWN == 1000

\* isProcessing = false, lastApiCallRef = 0, no call of handleImageUpload in
\* flight; now is Date.now(), past the first cooldown from the start; uploads
\* numbers the change events of the file input, rejected and sent are the
\* uploads the cooldown refused and those a request was posted for
NoScan ==
    [isProcessing |-> FALSE, lastApiCallRef |-> 0, now |-> API_CALL_COOLDOWN,
     calls |-> {}, uploads |-> 0, rejected |-> {}, sent |-> {}, outstanding |-> 0]

(***************************************************************************)
(* The FEN codec, as inlined in every edit handler.                        *)
(***************************************************************************)
EmptyRow == [j \in 1..8 |-> Null]

\* the inner loop of "Convert ranks to 2D array": row is board[i], col the
\* 0-based column counter, j the 1-based position in the rank text
RECURSIVE ScanRank(_, _, _, _)
ScanRank(rank, j, col, row) ==
    IF j > Len(rank) \/ col >= 8 THEN row
    ELSE LET char == rank[j] IN
         IF IsDigit18(char)
         THEN ScanRank(rank, j + 1, Min(col + parseInt(char), 8), row)
         ELSE LET pieceType == toLowerCase(char)
                  placed == IF col >= 0 /\ col < 8 /\ pieceType \in DOMAIN fenToPieceType
                            THEN [row EXCEPT ![col + 1] =
                                     [type |-> fenToPieceType[pieceType],
                                      color |-> IF IsUpper(char) THEN "w" ELSE "b"]]
                            ELSE row
              IN IF col + 1 > 8 THEN placed
                 ELSE ScanRank(rank, j + 1, col + 1, placed)

\* ranks (8 texts) -> board[1..8][1..8]; row 1 is rank 8, column 1 is file a
ParseBoard(ranks) ==
    [i \in 1..8 |-> IF ranks[i] = <<>> THEN EmptyRow
                    ELSE ScanRank(ranks[i], 1, 0, EmptyRow)]

\* one rank of "Convert board back to FEN"
\* a variant of EncodeRank that does not reset emptyCount after writing it
RECURSIVE EncodeRankKeepCount(_, _, _, _)
EncodeRankKeepCount(row, j, emptyCount, acc) ==
    IF j > 8
    THEN IF emptyCount > 0 THEN Append(acc, NumText(emptyCount)) ELSE acc
    ELSE IF row[j] = Null
    THEN EncodeRankKeepCount(row, j + 1, Min(emptyCount + 1, 8), acc)
    ELSE LET flushed == IF emptyCount > 0 THEN Append(acc, NumText(emptyCount)) ELSE acc
             pieceChar == IF row[j].type \in DOMAIN pieceTypeToFEN
                          THEN pieceTypeToFEN[row[j].type] ELSE "p"
         IN EncodeRankKeepCount(row, j + 1, emptyCount,
                Append(flushed, IF row[j].color = "w" THEN toUpperCase(pieceChar)
                                ELSE pieceChar))

RECURSIVE EncodeRank(_, _, _, _)
EncodeRank(row, j, emptyCount, acc) ==
    IF j > 8
    THEN IF emptyCount > 0 THEN Append(acc, NumText(emptyCount)) ELSE acc
    ELSE IF row[j] = Null
    THEN EncodeRank(row, j + 1, emptyCount + 1, acc)
    ELSE LET flushed == IF emptyCount > 0 THEN Append(acc, NumText(emptyCount)) ELSE acc
             pieceChar == IF row[j].type \in DOMAIN pieceTypeToFEN
                          THEN pieceTypeToFEN[row[j].type] ELSE "p"
         IN EncodeRank(row, j + 1, 0,
                Append(flushed, IF row[j].color = "w" THEN toUpperCase(pieceChar)
                                ELSE pieceChar))

RECURSIVE EncodeFrom(_, _)
EncodeFrom(board, i) ==
    IF i > 8 THEN <<>>
    ELSE EncodeRank(board[i], 1, 0, <<>>)
         \o (IF i < 8 THEN <<"/">> ELSE <<>>)
         \o EncodeFrom(board, i + 1)

\* board -> fenBoard
EncodeBoard(board) == EncodeFrom(board, 1)

\* `${fenBoard} ${preservedTurn} ${fenParts[2] || ...} ... ${fenParts[5] || ...}`
BuildFen(fenBoard, fenParts) ==
    join(<<fenBoard,
           OrElse(fenParts[2], DEFAULT_FEN_PARTS[2]),
           OrElse(fenParts[3], DEFAULT_FEN_PARTS[3]),
           OrElse(fenParts[4], DEFAULT_FEN_PARTS[4]),
           OrElse(fenParts[5], DEFAULT_FEN_PARTS[5]),
           OrElse(fenParts[6], DEFAULT_FEN_PARTS[6])>>, " ")

\* 8 - parseInt(rank, 10), as a 1-based row
RowOf(square) == (8 - parseInt(square[2])) + 1
\* file.charCodeAt(0) - 97, as a 1-based column
ColOf(square) == FileIndex[square[1]] + 1

\* the guards every edit handler runs before it decodes
Decodable(f, fenParts) ==
    /\ f # <<>>
    /\ Len(fenParts) >= 6
    /\ fenParts[1] # <<>>
    /\ Len(split(fenParts[1], "/")) = 8

\* the board array an edit handler builds from the current FEN
BoardOf(fenParts) == ParseBoard(split(fenParts[1], "/"))

(***************************************************************************)
(* The external legality parser (chess.js): new Chess(f) and its fen().    *)
(* A black box: it may reject any text; when it accepts, fen() returns the *)
(* same board and counters, the castling rights rewritten in the order     *)
(* K, Q, k, q, and a turn. With anyTurn the returned turn is arbitrary     *)
(* (the case the handlers guard against), otherwise it is the turn given.  *)
(***************************************************************************)
Has(c, x) == \E i \in DOMAIN c : c[i] = x

CanonCastling(c) ==
    LET s == (IF Has(c, "K") THEN <<"K">> ELSE <<>>)
             \o (IF Has(c, "Q") THEN <<"Q">> ELSE <<>>)
             \o (IF Has(c, "k") THEN <<"k">> ELSE <<>>)
             \o (IF Has(c, "q") THEN <<"q">> ELSE <<>>)
    IN IF s = <<>> THEN <<"-">> ELSE s

Rejected == [ok |-> FALSE, fen |-> <<>>]

Chess(f, anyTurn) ==
    LET tokens == split(f, " ") IN
    IF Len(tokens) < 6 THEN {Rejected}
    ELSE {Rejected} \cup
         {[ok |-> TRUE,
           fen |-> join(<<tokens[1], t, CanonCastling(tokens[3]),
                          tokens[4], tokens[5], tokens[6]>>, " ")] :
             t \in IF anyTurn THEN {<<"w">>, <<"b">>} ELSE {tokens[2]}}

\* new Chess().fen()
StartFen ==
    <<"r","n","b","q","k","b","n","r","/","p","p","p","p","p","p","p","p","/",
      "8","/","8","/","8","/","8","/",
      "P","P","P","P","P","P","P","P","/","R","N","B","Q","K","B","N","R",
      " ","w"," ","K","Q","k","q"," ","-"," ","0"," ","1">>

\* fen() of a Chess object after clear()
EmptyFen ==
    <<"8","/","8","/","8","/","8","/","8","/","8","/","8","/","8",
      " ","w"," ","-"," ","-"," ","0"," ","1">>

(***************************************************************************)
(* Faulty variants of the handlers' tail, against which the properties of  *)
(* the edits are tested.                                                   *)
(***************************************************************************)
\* a variant of StoreResults that stores the parser's FEN as it is returned,
\* the way handleTurnChange does, without forcing the turn back
StoreResultsParserTurn(newFen, preservedTurn, anyTurn) ==
    {IF r1.ok THEN [fen |-> r1.fen, path |-> "accepted"]
     ELSE [fen |-> newFen, path |-> "rejected"] : r1 \in Chess(newFen, anyTurn)}

\* a variant of StoreResults whose catch block falls back to new Chess().fen()
StoreResultsFallback(newFen, preservedTurn, anyTurn) ==
    {IF r1.ok THEN [fen |-> newFen, path |-> "accepted"]
     ELSE [fen |-> StartFen, path |-> "rejected"] : r1 \in Chess(newFen, anyTurn)}

(***************************************************************************)
(* The tail shared by the edit handlers and handleSwapColors:              *)
(* setFen(newFen), then the attempt to parse it, with the turn forced back *)
(* when the parser's FEN carries another turn. The set of FEN texts the    *)
(* handler may leave in `fen`, each with the path that stored it.          *)
(***************************************************************************)
StoreResults(newFen, preservedTurn, anyTurn) ==
    UNION {
        IF ~r1.ok THEN {[fen |-> newFen, path |-> "rejected"]}
        ELSE LET gameFen == split(r1.fen, " ") IN
             IF gameFen[2] # preservedTurn
             THEN LET correctedFen ==
                          join([gameFen EXCEPT ![2] = preservedTurn], " ")
                  IN {IF r2.ok THEN [fen |-> correctedFen, path |-> "corrected"]
                      ELSE [fen |-> newFen, path |-> "uncorrected"] :
                         r2 \in Chess(correctedFen, anyTurn)}
             ELSE {[fen |-> newFen, path |-> "accepted"]}
        : r1 \in Chess(newFen, anyTurn)}

(***************************************************************************)
(* The three board edits, on the decoded board array.                      *)
(***************************************************************************)
\* !piece, !board[row][col]
FalsyNever(piece) == FALSE
Falsy(piece) == piece = Null

\* a variant of MovePiece that forgets to clear the source square
MovePieceCopy(board, sourceSquare, targetSquare) ==
    [board EXCEPT ![RowOf(targetSquare)][ColOf(targetSquare)] =
        board[RowOf(sourceSquare)][ColOf(sourceSquare)]]

\* a variant of PlacePiece that only fills an empty square
PlacePieceIfEmpty(board, draggedPiece, targetSquare) ==
    IF board[RowOf(targetSquare)][ColOf(targetSquare)] = Null
    THEN [board EXCEPT ![RowOf(targetSquare)][ColOf(targetSquare)] =
             [type |-> draggedPiece.type, color |-> draggedPiece.color]]
    ELSE board

\* a variant of RemovePiece with row and column exchanged
RemovePieceTransposed(board, square) ==
    [board EXCEPT ![ColOf(square)][RowOf(square)] = Null]

\* board[sourceRow][sourceCol] = null; board[targetRow][targetCol] = piece
MovePiece(board, sourceSquare, targetSquare) ==
    LET piece == board[RowOf(sourceSquare)][ColOf(sourceSquare)]
        cleared == [board EXCEPT ![RowOf(sourceSquare)][ColOf(sourceSquare)] = Null]
    IN [cleared EXCEPT ![RowOf(targetSquare)][ColOf(targetSquare)] = piece]

\* board[row][col] = { type: draggedPiece.type, color: draggedPiece.color }
PlacePiece(board, draggedPiece, targetSquare) ==
    [board EXCEPT ![RowOf(targetSquare)][ColOf(targetSquare)] =
        [type |-> draggedPiece.type, color |-> draggedPiece.color]]

\* board[row][col] = null
RemovePiece(board, square) ==
    [board EXCEPT ![RowOf(square)][ColOf(square)] = Null]

\* the record of the last handler call
NoSquare == <<>>
Call(name, a, b, piece, ret) ==
    [name |-> name, source |-> a, target |-> b, piece |-> piece, ret |-> ret,
     arg |-> <<>>, opened |-> <<>>]
\* a call of a control of the position panel, with the value it was given
Control(name, arg) ==
    [Call(name, NoSquare, NoSquare, Null, "none") EXCEPT !.arg = arg]

(***************************************************************************)
(* The transforms.                                                         *)
(***************************************************************************)
\* a variant of SwapCastling that copies the rights without exchanging sides
SwapCastlingKept(castling) ==
    IF castling = <<"-">> THEN <<"-">>
    ELSE LET s == (IF Has(castling, "K") THEN <<"K">> ELSE <<>>)
                  \o (IF Has(castling, "Q") THEN <<"Q">> ELSE <<>>)
                  \o (IF Has(castling, "k") THEN <<"k">> ELSE <<>>)
                  \o (IF Has(castling, "q") THEN <<"q">> ELSE <<>>)
         IN IF s = <<>> THEN <<"-">> ELSE s

\* a variant of SwapCastling that forgets black's queen-side right
SwapCastlingNoBlackQueenSide(castling) ==
    IF castling = <<"-">> THEN <<"-">>
    ELSE LET s == (IF Has(castling, "K") THEN <<"k">> ELSE <<>>)
                  \o (IF Has(castling, "Q") THEN <<"q">> ELSE <<>>)
                  \o (IF Has(castling, "k") THEN <<"K">> ELSE <<>>)
         IN IF s = <<>> THEN <<"-">> ELSE s

\* "Swap castling rights: K<->k, Q<->q", the same code in both transforms
SwapCastling(castling) ==
    IF castling = <<"-">> THEN <<"-">>
    ELSE LET s == (IF Has(castling, "K") THEN <<"k">> ELSE <<>>)
                  \o (IF Has(castling, "Q") THEN <<"q">> ELSE <<>>)
                  \o (IF Has(castling, "k") THEN <<"K">> ELSE <<>>)
                  \o (IF Has(castling, "q") THEN <<"Q">> ELSE <<>>)
         IN IF s = <<>> THEN <<"-">> ELSE s

\* a variant of SwapRank that turns white pieces black and leaves black ones
RECURSIVE SwapRankWhiteOnly(_)
SwapRankWhiteOnly(rank) ==
    IF rank = <<>> THEN <<>>
    ELSE LET char == Head(rank) IN
         (IF IsDigit18(char) THEN <<char>>
          ELSE IF IsUpper(char) THEN <<toLowerCase(char)>>
          ELSE IF IsLower(char) THEN <<char>>
          ELSE <<>>) \o SwapRankWhiteOnly(Tail(rank))

\* a variant of SwapRank that turns every piece white
RECURSIVE SwapRankAllWhite(_)
SwapRankAllWhite(rank) ==
    IF rank = <<>> THEN <<>>
    ELSE LET char == Head(rank) IN
         (IF IsDigit18(char) THEN <<char>>
          ELSE IF IsUpper(char) THEN <<char>>
          ELSE IF IsLower(char) THEN <<toUpperCase(char)>>
          ELSE <<>>) \o SwapRankAllWhite(Tail(rank))

\* one rank of swapPieceColors: digits kept, letters change case, the rest dropped
RECURSIVE SwapRank(_)
SwapRank(rank) ==
    IF rank = <<>> THEN <<>>
    ELSE LET char == Head(rank) IN
         (IF IsDigit18(char) THEN <<char>>
          ELSE IF IsUpper(char) THEN <<toLowerCase(char)>>
          ELSE IF IsLower(char) THEN <<toUpperCase(char)>>
          ELSE <<>>) \o SwapRank(Tail(rank))

swapPieceColors(fenString) ==
    LET fenParts == split(fenString, " ") IN
    IF fenString = <<>> \/ Len(fenParts) < 6 THEN fenString
    ELSE LET boardPart == OrElse(fenParts[1], DEFAULT_FEN_PARTS[1])
             turn == OrElse(fenParts[2], DEFAULT_FEN_PARTS[2])
             castling == OrElse(fenParts[3], DEFAULT_FEN_PARTS[3])
             enPassant == OrElse(fenParts[4], DEFAULT_FEN_PARTS[4])
             halfmove == OrElse(fenParts[5], DEFAULT_FEN_PARTS[5])
             fullmove == OrElse(fenParts[6], DEFAULT_FEN_PARTS[6])
             ranks == split(boardPart, "/")
         IN IF Len(ranks) # 8 THEN fenString
            ELSE join(<<join([i \in 1..8 |-> SwapRank(ranks[i])], "/"),
                        turn, SwapCastling(castling), enPassant,
                        halfmove, fullmove>>, " ")

\* a variant of RotateEnPassant that flips the rank and keeps the file
RotateEnPassantRankOnly(enPassant) ==
    IF enPassant # <<>> /\ enPassant # <<"-">> /\ Len(enPassant) >= 2
       /\ enPassant[1] \in FileSet /\ IsDigit18(enPassant[2])
    THEN <<enPassant[1], NumText(9 - parseInt(enPassant[2]))>>
    ELSE <<"-">>

\* "Flip en passant square: a3 -> h6, e3 -> d6"
RotateEnPassant(enPassant) ==
    IF enPassant # <<>> /\ enPassant # <<"-">> /\ Len(enPassant) >= 2
       /\ enPassant[1] \in FileSet /\ IsDigit18(enPassant[2])
    THEN <<Files[(7 - FileIndex[enPassant[1]]) + 1],
           NumText(9 - parseInt(enPassant[2]))>>
    ELSE <<"-">>

rotateFEN180(fenString) ==
    LET fenParts == split(fenString, " ") IN
    IF fenString = <<>> \/ Len(fenParts) < 6 THEN fenString
    ELSE LET boardPart == OrElse(fenParts[1], DEFAULT_FEN_PARTS[1])
             turn == OrElse(fenParts[2], DEFAULT_FEN_PARTS[2])
             castling == OrElse(fenParts[3], DEFAULT_FEN_PARTS[3])
             enPassant == OrElse(fenParts[4], DEFAULT_FEN_PARTS[4])
             halfmove == OrElse(fenParts[5], DEFAULT_FEN_PARTS[5])
             fullmove == OrElse(fenParts[6], DEFAULT_FEN_PARTS[6])
             ranks == split(boardPart, "/")
         IN IF Len(ranks) # 8 THEN fenString
            ELSE LET reversedRanks == Reverse(ranks)
                     rotatedRanks == [i \in 1..8 |-> Reverse(reversedRanks[i])]
                 IN join(<<join(rotatedRanks, "/"), turn, SwapCastling(castling),
                           RotateEnPassant(enPassant), halfmove, fullmove>>, " ")

(***************************************************************************)
(* The structural validator.                                               *)
(***************************************************************************)
\* the characters \s matches, of those a text of the model holds
Whitespace == {" ", "\t", "\n"}

\* fenString.trim().split(/\s+/): runs of whitespace separate, none leads or
\* trails
TrimSplit(fenString) ==
    LET blanked == [i \in DOMAIN fenString |->
                       IF fenString[i] \in Whitespace THEN " " ELSE fenString[i]]
        parts == SelectSeq(split(blanked, " "), LAMBDA x : x # <<>>)
    IN IF parts = <<>> THEN << <<>> >> ELSE parts

\* a variant of SquareCount that stops counting at 8 squares
RECURSIVE SquareCountCapped(_)
SquareCountCapped(rank) ==
    IF rank = <<>> THEN 0
    ELSE Min(8, (IF IsDigit18(Head(rank)) THEN parseInt(Head(rank)) ELSE 1)
                + SquareCountCapped(Tail(rank)))

RECURSIVE SquareCount(_)
SquareCount(rank) ==
    IF rank = <<>> THEN 0
    ELSE (IF IsDigit18(Head(rank)) THEN parseInt(Head(rank)) ELSE 1)
         + SquareCount(Tail(rank))

validFENChars == {"r","n","b","q","k","p","R","N","B","Q","K","P",
                  "1","2","3","4","5","6","7","8"}

\* /^\d+$/
IsNumber(t) == t # <<>> /\ \A i \in DOMAIN t : t[i] \in DigitSet

validateFENFormat(fenString) ==
    /\ fenString # <<>>
    /\ LET parts == TrimSplit(fenString) IN
       /\ Len(parts) = 6
       /\ LET ranks == split(parts[1], "/") IN
          /\ Len(ranks) = 8
          /\ \A i \in 1..8 :
                /\ ranks[i] # <<>>
                /\ \A j \in DOMAIN ranks[i] : ranks[i][j] \in validFENChars
                /\ SquareCount(ranks[i]) = 8
       /\ parts[2] \in {<<"w">>, <<"b">>}
       /\ \/ parts[3] = <<"-">>
          \/ \A i \in DOMAIN parts[3] : parts[3][i] \in {"K","Q","k","q"}
       /\ \/ parts[4] = <<"-">>
          \/ /\ Len(parts[4]) = 2
             /\ parts[4][1] \in FileSet
             /\ parts[4][2] \in {"3","6"}
       /\ IsNumber(parts[5])
       /\ IsNumber(parts[6])

(***************************************************************************)
(* The handlers. Every one is a whole handler call: its guards, its        *)
(* setFen calls and its return value. anyTurn selects the parser model.    *)
(***************************************************************************)
Sq(file, rank) == <<file, rank>>

\* the squares and pieces the exploration edits with
EditSquares == {Sq("e", "2"), Sq("e", "4"), Sq("d", "8")}
EditPieces == {[type |-> "king", color |-> "w"], [type |-> "pawn", color |-> "b"]}
Turns == {<<"w">>, <<"b">>}
Rights == {"K", "Q", "k", "q"}

Counted == fuel > 0 /\ fuel' = fuel - 1 /\ UNCHANGED <<input, scan>>

\* onDrop(sourceSquare, targetSquare), reached through enhancedOnDrop
Move(sourceSquare, targetSquare, anyTurn) ==
    /\ Counted
    /\ UNCHANGED processingError
    /\ LET fenParts == split(fen, " ") IN
       IF ~Decodable(fen, fenParts)
       THEN /\ UNCHANGED fen
            /\ op' = Call("Move", sourceSquare, targetSquare, Null, "false")
       ELSE LET board == BoardOf(fenParts)
                piece == board[RowOf(sourceSquare)][ColOf(sourceSquare)]
            IN IF Falsy(piece)
               THEN /\ UNCHANGED fen
                    /\ op' = Call("Move", sourceSquare, targetSquare, Null, "false")
               ELSE LET preservedTurn == OrElse(fenParts[2], DEFAULT_FEN_PARTS[2])
                        newFen == BuildFen(
                            EncodeBoard(MovePiece(board, sourceSquare, targetSquare)),
                            fenParts)
                    IN /\ \E res \in StoreResults(newFen, preservedTurn, anyTurn) :
                             fen' = res.fen
                       /\ op' = Call("Move", sourceSquare, targetSquare, piece, "true")

\* the palette drop: enhancedOnDrop with draggedPiece set and no source
\* square, and the board container's onDrop, which run the same code
Place(draggedPiece, targetSquare, anyTurn) ==
    /\ Counted
    /\ UNCHANGED processingError
    /\ LET fenParts == split(fen, " ") IN
       IF ~Decodable(fen, fenParts)
       THEN /\ UNCHANGED fen
            /\ op' = Call("Place", NoSquare, targetSquare, draggedPiece, "false")
       ELSE LET board == BoardOf(fenParts)
                preservedTurn == OrElse(fenParts[2], DEFAULT_FEN_PARTS[2])
                newFen == BuildFen(
                    EncodeBoard(PlacePiece(board, draggedPiece, targetSquare)),
                    fenParts)
            IN /\ \E res \in StoreResults(newFen, preservedTurn, anyTurn) :
                     fen' = res.fen
               /\ op' = Call("Place", NoSquare, targetSquare, draggedPiece, "true")

\* handleSquareRightClick(square)
Remove(square, anyTurn) ==
    /\ Counted
    /\ UNCHANGED processingError
    /\ op' = Call("Remove", NoSquare, square, Null, "none")
    /\ LET fenParts == split(fen, " ") IN
       IF ~Decodable(fen, fenParts)
       THEN UNCHANGED fen
       ELSE LET board == BoardOf(fenParts)
            IN IF Falsy(board[RowOf(square)][ColOf(square)])
               THEN UNCHANGED fen
               ELSE LET preservedTurn == OrElse(fenParts[2], DEFAULT_FEN_PARTS[2])
                        newFen == BuildFen(EncodeBoard(RemovePiece(board, square)),
                                           fenParts)
                    IN \E res \in StoreResults(newFen, preservedTurn, anyTurn) :
                          fen' = res.fen

\* handleReset
Reset ==
    /\ Counted
    /\ fen' = StartFen
    /\ op' = Call("Reset", NoSquare, NoSquare, Null, "none")
    /\ UNCHANGED processingError

\* handleClear
Clear ==
    /\ Counted
    /\ fen' = EmptyFen
    /\ op' = Call("Clear", NoSquare, NoSquare, Null, "none")
    /\ UNCHANGED processingError

\* handleFlipBoard
FlipBoard ==
    /\ Counted
    /\ op' = Call("FlipBoard", NoSquare, NoSquare, Null, "none")
    /\ IF fen = <<>>
       THEN UNCHANGED <<fen, processingError>>
       ELSE LET flippedFen == rotateFEN180(fen) IN
            IF ~validateFENFormat(flippedFen)
            THEN /\ processingError' = "Invalid FEN format after flip."
                 /\ UNCHANGED fen
            ELSE /\ fen' = flippedFen
                 /\ UNCHANGED processingError

\* handleSwapColors
SwapColors(anyTurn) ==
    /\ Counted
    /\ op' = Call("SwapColors", NoSquare, NoSquare, Null, "none")
    /\ UNCHANGED processingError
    /\ LET currentFenParts == split(fen, " ")
           preservedTurn == OrElse(currentFenParts[2], DEFAULT_FEN_PARTS[2])
           swappedFenParts == split(swapPieceColors(fen), " ")
           fenWithPreservedTurn ==
               join(<<swappedFenParts[1], preservedTurn, swappedFenParts[3],
                      swappedFenParts[4], swappedFenParts[5], swappedFenParts[6]>>, " ")
       IN \E res \in StoreResults(fenWithPreservedTurn, preservedTurn, anyTurn) :
             fen' = res.fen

\* handleTurnChange, with e.target.value = newTurn
TurnChange(newTurn, anyTurn) ==
    /\ Counted
    /\ op' = Control("TurnChange", <<newTurn>>)
    /\ UNCHANGED processingError
    /\ LET fenParts == split(fen, " ") IN
       IF fen = <<>> \/ Len(fenParts) < 2
       THEN UNCHANGED fen
       ELSE LET newFen == join([fenParts EXCEPT ![2] = newTurn], " ") IN
            \E r \in Chess(newFen, anyTurn) :
               fen' = IF r.ok THEN r.fen ELSE newFen

\* the castling text after one toggle: += right, or replace(right, '')
RECURSIVE RemoveFirst(_, _)
RemoveFirst(t, c) ==
    IF t = <<>> THEN <<>>
    ELSE IF Head(t) = c THEN Tail(t)
    ELSE <<Head(t)>> \o RemoveFirst(Tail(t), c)

ToggleCastling(castling, right, enabled) ==
    LET toggled == IF enabled
                   THEN IF Has(castling, right) THEN castling
                        ELSE Append(castling, right)
                   ELSE RemoveFirst(castling, right)
    IN IF toggled = <<>> THEN <<"-">> ELSE toggled

\* handleCastlingRightsChange(right, enabled)
CastlingRightsChange(right, enabled, anyTurn) ==
    /\ Counted
    /\ op' = Control("CastlingRightsChange", <<right, enabled>>)
    /\ UNCHANGED processingError
    /\ IF fen = <<>>
       THEN UNCHANGED fen
       ELSE \E gameCopy \in Chess(fen, anyTurn) :
               IF gameCopy.ok
               THEN LET fenParts == split(gameCopy.fen, " ") IN
                    IF Len(fenParts) < 6
                    THEN UNCHANGED fen
                    ELSE LET castling == ToggleCastling(OrElse(fenParts[3], <<"-">>),
                                                        right, enabled)
                             newFen == join([fenParts EXCEPT ![3] = castling], " ")
                         IN \E r \in Chess(newFen, anyTurn) :
                               fen' = IF r.ok THEN r.fen ELSE newFen
               ELSE LET fenParts == split(fen, " ") IN
                    IF Len(fenParts) >= 6
                    THEN LET castling == ToggleCastling(OrElse(fenParts[3], <<"-">>),
                                                        right, enabled)
                         IN fen' = join([fenParts EXCEPT ![3] = castling], " ")
                    ELSE UNCHANGED fen

(***************************************************************************)
(* The editor: the initial position and one handler call per step.         *)
(***************************************************************************)
Init ==
    /\ fen = StartFen
    /\ processingError = "null"
    /\ op = Call("init", NoSquare, NoSquare, Null, "none")
    /\ input = StartFen
    /\ fuel = MaxSteps
    /\ scan = NoScan

Editor(anyTurn) ==
    \/ \E p \in EditPieces, t \in EditSquares : Place(p, t, anyTurn)
    \/ \E s \in EditSquares : Remove(s, anyTurn)
    \/ \E s \in EditSquares, t \in EditSquares : Move(s, t, anyTurn)
    \/ Reset
    \/ Clear
    \/ FlipBoard
    \/ SwapColors(anyTurn)
    \/ \E c \in Turns : TurnChange(c, anyTurn)
    \/ \E r \in Rights, e \in BOOLEAN : CastlingRightsChange(r, e, anyTurn)

\* the parser as a black box that may return another turn
Next == Editor(TRUE)

Spec == Init /\ [][Next]_vars

(***************************************************************************)
(* One edit, with every piece of the palette and every square of the       *)
(* board, from a position the editor reaches: every kind of piece on the   *)
(* board, black to move, the castling rights as a Flip Board leaves them.  *)
(***************************************************************************)
EditedFen ==
    <<"r","3","k","3","/","8","/","2","n","1","b","3","/","3","p","P","3",
      "/","1","q","6","/","5","N","2","/","3","B","1","Q","2","/","R","3",
      "K","2","R"," ","b"," ","k","q","K","Q"," ","-"," ","0"," ","1">>

InitEdit ==
    /\ fen = EditedFen
    /\ processingError = "null"
    /\ op = Call("init", NoSquare, NoSquare, Null, "none")
    /\ input = fen
    /\ fuel = 1
    /\ scan = NoScan

NextEdit ==
    \/ \E p \in PalettePieces, t \in AllSquares : Place(p, t, TRUE)
    \/ \E s \in AllSquares : Remove(s, TRUE)
    \/ \E s \in AllSquares, t \in AllSquares : Move(s, t, TRUE)

SpecEdit == InitEdit /\ [][NextEdit]_vars

(***************************************************************************)
(* Properties of the editor.                                               *)
(***************************************************************************)
TurnOf(f) == split(f, " ")[2]
DecodedBoard(f) == BoardOf(split(f, " "))
At(board, square) == board[RowOf(square)][ColOf(square)]
BoardFieldOf(f) == split(f, " ")[1]
MetadataOf(f) == SubSeq(split(f, " "), 3, 6)
PieceOn(f, square) == BoardOf(split(f, " "))[RowOf(square)][ColOf(square)]
EditNames == {"Place", "Remove", "Move"}
TransformNames == {"FlipBoard", "SwapColors"}

EditAlwaysApplied ==
    [][op'.name \in EditNames =>
          \A board \in {DecodedBoard(fen)}, after \in {BoardFieldOf(fen')} :
             /\ op'.name = "Place" =>
                   after = EncodeBoard(PlacePiece(board, op'.piece, op'.target))
             /\ op'.name = "Remove" /\ At(board, op'.target) # Null =>
                   after = EncodeBoard(RemovePiece(board, op'.target))
             /\ op'.name = "Move" /\ At(board, op'.source) # Null =>
                   after = EncodeBoard(MovePiece(board, op'.source, op'.target))]_vars

\* C2, reached: a second white king was placed, a position no legal-position
\* parser accepts, and it is on the board
SecondKingPlaced ==
    /\ op.name = "Place"
    /\ op.piece = [type |-> "king", color |-> "w"]
    /\ PieceOn(fen, op.target) = op.piece
    /\ \E s \in EditSquares \ {op.target} : PieceOn(fen, s) = op.piece
       \/ PieceOn(fen, Sq("e", "1")) = op.piece

\* C3: a call of Place, Remove or Move leaves the castling, en-passant,
\* halfmove and fullmove fields exactly as they were, on every path of the
\* handlers' tail.
MetadataKeptByEdits ==
    [][op'.name \in EditNames => MetadataOf(fen') = MetadataOf(fen)]_vars

(***************************************************************************)
(* Properties of one edit, over all pieces and squares.                    *)
(***************************************************************************)
SameExceptOn(before, after, squares) ==
    \A i \in 1..8, j \in 1..8 :
        (\A s \in squares : i # RowOf(s) \/ j # ColOf(s)) => after[i][j] = before[i][j]

\* C4: a Move whose source square is empty changes nothing: the FEN text and
\* the message slot are as before and the call returns false.
MoveFromEmptySquareIsNoOp ==
    [][op'.name = "Move" /\ At(DecodedBoard(fen), op'.source) = Null =>
          /\ op'.ret = "false"
          /\ fen' = fen
          /\ processingError' = processingError]_vars

\* C4, reached: a Move from an empty square onto an occupied one returned
\* false and the occupied square still holds its piece
MoveFromEmptyOntoPiece ==
    /\ op.name = "Move"
    /\ op.ret = "false"
    /\ At(DecodedBoard(input), op.source) = Null
    /\ At(DecodedBoard(fen), op.target) # Null
    /\ fen = input

\* C5: a Move from an occupied square to a different square returns true;
\* afterwards the target holds the piece that was on the source, the source
\* is empty and the other 62 squares are as before, whatever the target held
\* and whether or not the move is legal.
MoveRelocates ==
    [][\A before \in {DecodedBoard(fen)}, after \in {DecodedBoard(fen')} :
          (/\ op'.name = "Move"
           /\ At(before, op'.source) # Null
           /\ op'.source # op'.target) =>
             /\ op'.ret = "true"
             /\ At(after, op'.target) = At(before, op'.source)
             /\ At(after, op'.source) = Null
             /\ SameExceptOn(before, after, {op'.source, op'.target})]_vars

\* C5, reached: a rook moved like no rook moves, onto a piece of its own
\* colour, and replaced it
RookTakesOwnKing ==
    /\ op.name = "Move"
    /\ op.ret = "true"
    /\ op.source = Sq("a", "1")
    /\ op.target = Sq("e", "1")
    /\ At(DecodedBoard(input), op.source) = [type |-> "rook", color |-> "w"]
    /\ At(DecodedBoard(input), op.target) = [type |-> "king", color |-> "w"]
    /\ At(DecodedBoard(fen), op.target) = [type |-> "rook", color |-> "w"]
    /\ At(DecodedBoard(fen), op.source) = Null

\* C6: a Place of any of the 12 palette pieces on any of the 64 squares
\* leaves exactly that piece on the target, whatever the target held, and
\* the other 63 squares as before.
PlaceOverwrites ==
    [][\A before \in {DecodedBoard(fen)}, after \in {DecodedBoard(fen')} :
          op'.name = "Place" =>
             /\ op'.piece \in PalettePieces
             /\ At(after, op'.target) = op'.piece
             /\ SameExceptOn(before, after, {op'.target})]_vars

\* C6, reached: a black queen was placed on the square of the white king
QueenPlacedOnKing ==
    /\ op.name = "Place"
    /\ op.piece = [type |-> "queen", color |-> "b"]
    /\ At(DecodedBoard(input), op.target) = [type |-> "king", color |-> "w"]
    /\ At(DecodedBoard(fen), op.target) = op.piece

\* C7: a Remove of an occupied square empties it and leaves the other 63
\* squares as before; a Remove of an empty square leaves the FEN text
\* identical.
RemoveClearsOrNoOp ==
    [][\A before \in {DecodedBoard(fen)}, after \in {DecodedBoard(fen')} :
          op'.name = "Remove" =>
             IF At(before, op'.target) # Null
             THEN /\ At(after, op'.target) = Null
                  /\ SameExceptOn(before, after, {op'.target})
             ELSE fen' = fen]_vars

\* C7, reached: the black pawn of d5 was removed
PawnRemoved ==
    /\ op.name = "Remove"
    /\ op.target = Sq("d", "5")
    /\ At(DecodedBoard(input), op.target) = [type |-> "pawn", color |-> "b"]
    /\ At(DecodedBoard(fen), op.target) = Null

(***************************************************************************)
(* The Reset, right click on e2, Swap Colors scenario.                     *)
(***************************************************************************)
AfterRemoveE2 ==
    <<"r","n","b","q","k","b","n","r","/","p","p","p","p","p","p","p","p",
      "/","8","/","8","/","8","/","8","/","P","P","P","P","1","P","P","P",
      "/","R","N","B","Q","K","B","N","R"," ","w"," ","K","Q","k","q"," ",
      "-"," ","0"," ","1">>

\* the text the handler builds, and the text it stores instead when the
\* parser's FEN is kept after a turn correction
AfterSwapColors ==
    <<"R","N","B","Q","K","B","N","R","/","P","P","P","P","P","P","P","P",
      "/","8","/","8","/","8","/","8","/","p","p","p","p","1","p","p","p",
      "/","r","n","b","q","k","b","n","r"," ","w"," ","k","q","K","Q"," ",
      "-"," ","0"," ","1">>

AfterSwapColorsCorrected ==
    <<"R","N","B","Q","K","B","N","R","/","P","P","P","P","P","P","P","P",
      "/","8","/","8","/","8","/","8","/","p","p","p","p","1","p","p","p",
      "/","r","n","b","q","k","b","n","r"," ","w"," ","K","Q","k","q"," ",
      "-"," ","0"," ","1">>

\* the text with the gap of e2 on the other side of the board
AfterSwapColorsMirrored ==
    <<"R","N","B","Q","K","B","N","R","/","P","P","P","P","1","P","P","P",
      "/","8","/","8","/","8","/","8","/","p","p","p","p","p","p","p","p",
      "/","r","n","b","q","k","b","n","r"," ","w"," ","k","q","K","Q"," ",
      "-"," ","0"," ","1">>

\* C8 as stated: Reset leaves the starting FEN; from it Remove(e2) leaves
\* rnbqkbnr/pppppppp/8/8/8/8/PPPP1PPP/RNBQKBNR w KQkq - 0 1; from that
\* SwapColors leaves RNBQKBNR/PPPP1PPP/8/8/8/8/pppppppp/rnbqkbnr w kqKQ - 0 1.
ScenarioAsStated ==
    [][/\ op'.name = "Reset" => fen' = StartFen
       /\ (fen = StartFen /\ op'.name = "Remove" /\ op'.target = Sq("e", "2")) =>
             fen' = AfterRemoveE2
       /\ (fen = AfterRemoveE2 /\ op'.name = "SwapColors") =>
             fen' = AfterSwapColorsMirrored]_vars

\* C8, amended: Reset leaves the starting FEN; from it Remove(e2) leaves
\* rnbqkbnr/pppppppp/8/8/8/8/PPPP1PPP/RNBQKBNR w KQkq - 0 1; from that
\* SwapColors leaves every piece on its square with the other colour,
\* RNBQKBNR/PPPPPPPP/8/8/8/8/pppp1ppp/rnbqkbnr w kqKQ - 0 1, the castling
\* field reading KQkq instead when the parser's FEN is stored after a turn
\* correction.
ResetRemoveSwapScenario ==
    [][/\ op'.name = "Reset" => fen' = StartFen
       /\ (fen = StartFen /\ op'.name = "Remove" /\ op'.target = Sq("e", "2")) =>
             fen' = AfterRemoveE2
       /\ (fen = AfterRemoveE2 /\ op'.name = "SwapColors") =>
             fen' \in {AfterSwapColors, AfterSwapColorsCorrected}]_vars

\* C8, reached: e2 was cleared from the starting position, the colours were
\* swapped, and the pawn missing is the one of the e file on rank 2
ScenarioCompleted ==
    /\ op.name = "SwapColors"
    /\ fen = AfterSwapColors
    /\ PieceOn(fen, Sq("e", "2")) = Null
    /\ PieceOn(fen, Sq("e", "7")) = [type |-> "pawn", color |-> "w"]

(***************************************************************************)
(* The codec of the edit handlers.                                         *)
(***************************************************************************)
\* C9: for the position of every reachable FEN, encoding it and decoding the
\* result gives the same board and the same five metadata fields.
EncodeDecodeRoundTrip ==
    \A fenParts \in {split(fen, " ")} :
       \A board \in {BoardOf(fenParts)} :
          \A encoded \in {split(BuildFen(EncodeBoard(board), fenParts), " ")} :
             /\ Len(encoded) = 6
             /\ BoardOf(encoded) = board
             /\ SubSeq(encoded, 2, 6) = SubSeq(fenParts, 2, 6)

\* C9, reached: a position built by an edit, with pieces and gaps in one rank
EditedRankDecoded ==
    /\ op.name \in EditNames
    /\ op.ret # "false"
    /\ PieceOn(fen, Sq("e", "4")) # Null
    /\ PieceOn(fen, Sq("d", "4")) = Null
    /\ PieceOn(fen, Sq("f", "4")) = Null

(***************************************************************************)
(* rotateFEN180 applied twice, through the Flip Board button, to           *)
(* structurally valid FEN texts: four boards, both turns, castling texts   *)
(* in several orders, en-passant squares of both ranks.                    *)
(***************************************************************************)
RotateBoards ==
    {split(StartFen, " ")[1],
     split(EmptyFen, " ")[1],
     split(EditedFen, " ")[1],
     <<"7","k","/","8","/","8","/","8","/","8","/","8","/","P","7","/","K","7">>}

RotateCastlings ==
    {<<"-">>, <<"K">>, <<"q">>, <<"Q","k">>, <<"K","Q","k","q">>,
     <<"k","q","K","Q">>, <<"K","K">>}

RotateEnPassants ==
    {<<"-">>, <<"a","3">>, <<"e","3">>, <<"d","6">>, <<"h","6">>}

RotateCounters == {<< <<"0">>, <<"1">> >>, << <<"1","2">>, <<"3","4">> >>}

RotateInputs ==
    {f \in {join(<<b, t, c, e, n[1], n[2]>>, " ") :
               b \in RotateBoards, t \in Turns, c \in RotateCastlings,
               e \in RotateEnPassants, n \in RotateCounters} :
        validateFENFormat(f)}

InitRotate ==
    /\ fen \in RotateInputs
    /\ processingError = "null"
    /\ op = Call("init", NoSquare, NoSquare, Null, "none")
    /\ input = fen
    /\ fuel = 2
    /\ scan = NoScan

NextRotate == FlipBoard

SpecRotate == InitRotate /\ [][NextRotate]_vars

\* the rights of a castling text, written in the order given
RECURSIVE ListedIn(_, _)
ListedIn(order, castling) ==
    IF order = <<>> THEN <<>>
    ELSE (IF Has(castling, Head(order)) THEN <<Head(order)>> ELSE <<>>)
         \o ListedIn(Tail(order), castling)

RotatedTwice == op.name = "FlipBoard" /\ fuel = 0

\* C10 as stated: two Rotate180 of a structurally valid FEN give back the
\* original piece placement, the original castling field and the original
\* en-passant field.
RotateTwiceRestoresFields ==
    RotatedTwice /\ validateFENFormat(input) =>
       \A before \in {split(input, " ")}, after \in {split(fen, " ")} :
          /\ after[1] = before[1]
          /\ after[3] = before[3]
          /\ after[4] = before[4]

\* C10, amended: two Rotate180 of a structurally valid FEN give back the
\* original piece placement, en-passant field, turn and counters; the
\* castling field comes back with the same rights written in the order
\* k, q, K, Q (KQkq comes back as kqKQ).
RotateTwiceRestoresRights ==
    RotatedTwice /\ validateFENFormat(input) =>
       \A before \in {split(input, " ")}, after \in {split(fen, " ")} :
          /\ Len(after) = 6
          /\ after[1] = before[1]
          /\ after[2] = before[2]
          /\ after[3] = OrElse(ListedIn(<<"k", "q", "K", "Q">>, before[3]), <<"-">>)
          /\ {after[3][i] : i \in DOMAIN after[3]}
                = {before[3][i] : i \in DOMAIN before[3]}
          /\ after[4] = before[4]
          /\ after[5] = before[5]
          /\ after[6] = before[6]

\* C10, reached: a position with an en-passant square and all four rights
\* was rotated twice, the square is back and the rights are reordered
RotatedTwiceWithEnPassant ==
    /\ RotatedTwice
    /\ split(input, " ")[4] = <<"e", "3">>
    /\ split(fen, " ")[4] = <<"e", "3">>
    /\ split(input, " ")[3] = <<"K", "Q", "k", "q">>
    /\ split(fen, " ")[3] = <<"k", "q", "K", "Q">>
    /\ split(fen, " ")[1] = split(EditedFen, " ")[1]

(***************************************************************************)
(* handleSwapColors applied twice, through the Swap Colors button, to the  *)
(* same structurally valid FEN texts, the parser free to reject, to accept *)
(* and to answer with the other turn.                                      *)
(***************************************************************************)
InitSwap ==
    /\ fen \in RotateInputs
    /\ processingError = "null"
    /\ op = Call("init", NoSquare, NoSquare, Null, "none")
    /\ input = fen
    /\ fuel = 2
    /\ scan = NoScan

NextSwap == SwapColors(TRUE)

SpecSwap == InitSwap /\ [][NextSwap]_vars

SwappedTwice == op.name = "SwapColors" /\ fuel = 0

\* C11: two SwapColors of a structurally valid FEN leave on every square the
\* piece (type and colour) that was there, and every empty square empty.
SwapTwiceRestoresBoard ==
    SwappedTwice /\ validateFENFormat(input) =>
       \A before \in {DecodedBoard(input)}, after \in {DecodedBoard(fen)} :
          \A i \in 1..8, j \in 1..8 : after[i][j] = before[i][j]

\* C11, reached: the edited position, with pieces of both colours, was
\* swapped twice and its white rook of a1 and black queen of b4 are back
SwappedTwiceEditedPosition ==
    /\ SwappedTwice
    /\ split(input, " ")[1] = split(EditedFen, " ")[1]
    /\ PieceOn(fen, Sq("a", "1")) = [type |-> "rook", color |-> "w"]
    /\ PieceOn(fen, Sq("b", "4")) = [type |-> "queen", color |-> "b"]

(***************************************************************************)
(* One Flip Board, one Swap Colors.                                        *)
(***************************************************************************)
\* the letters of a castling text, white's and black's exchanged
OtherSide(c) == IF IsUpper(c) THEN toLowerCase(c) ELSE toUpperCase(c)
RightsOf(castling) == {castling[i] : i \in DOMAIN castling} \ {"-"}

\* C12: a Rotate180 of a structurally valid FEN moves the piece of (row, col)
\* to (7-row, 7-col) with its type and colour, maps an en-passant square
\* (file f, rank r) to (file h-f, rank 9-r), exchanges K with k and Q with q
\* in the castling field ("-" stays "-"), and keeps the turn, halfmove and
\* fullmove fields.
RotateMapsSquares ==
    [][op'.name = "FlipBoard" /\ validateFENFormat(fen) =>
          \A before \in {split(fen, " ")}, after \in {split(fen', " ")} :
             /\ \A b \in {BoardOf(before)}, a \in {BoardOf(after)} :
                   \A i \in 1..8, j \in 1..8 : a[9 - i][9 - j] = b[i][j]
             /\ IF before[4] = <<"-">> THEN after[4] = <<"-">>
                ELSE /\ Len(after[4]) = 2
                     /\ FileIndex[after[4][1]] = 7 - FileIndex[before[4][1]]
                     /\ parseInt(after[4][2]) = 9 - parseInt(before[4][2])
             /\ RightsOf(after[3]) = {OtherSide(c) : c \in RightsOf(before[3])}
             /\ before[3] = <<"-">> => after[3] = <<"-">>
             /\ after[3] # <<>>
             /\ after[2] = before[2]
             /\ after[5] = before[5]
             /\ after[6] = before[6]]_vars

\* C12, reached: one rotation took the rook of a1 to h8, the en-passant
\* square a3 to h6 and the rights Qk to qK
RotatedOnceCornerToCorner ==
    /\ op.name = "FlipBoard"
    /\ fuel = 1
    /\ PieceOn(input, Sq("a", "1")) = [type |-> "rook", color |-> "w"]
    /\ PieceOn(fen, Sq("h", "8")) = [type |-> "rook", color |-> "w"]
    /\ split(input, " ")[4] = <<"a", "3">>
    /\ split(fen, " ")[4] = <<"h", "6">>
    /\ split(input, " ")[3] = <<"Q", "k">>
    /\ split(fen, " ")[3] = <<"q", "K">>

OtherColor(c) == IF c = "w" THEN "b" ELSE "w"

\* C13: a SwapColors of a structurally valid FEN leaves every piece on its
\* square with its type and the other colour and every empty square empty,
\* exchanges K with k and Q with q in the castling field, and keeps the
\* en-passant, halfmove and fullmove fields.
SwapInvertsColours ==
    [][op'.name = "SwapColors" /\ validateFENFormat(fen) =>
          \A before \in {split(fen, " ")}, after \in {split(fen', " ")} :
             /\ \A b \in {BoardOf(before)}, a \in {BoardOf(after)} :
                   \A i \in 1..8, j \in 1..8 :
                      IF b[i][j] = Null THEN a[i][j] = Null
                      ELSE /\ a[i][j] # Null
                           /\ a[i][j].type = b[i][j].type
                           /\ a[i][j].color = OtherColor(b[i][j].color)
             /\ RightsOf(after[3]) = {OtherSide(c) : c \in RightsOf(before[3])}
             /\ before[3] = <<"-">> => after[3] = <<"-">>
             /\ after[3] # <<>>
             /\ after[4] = before[4]
             /\ after[5] = before[5]
             /\ after[6] = before[6]]_vars

\* C13, reached: one swap turned the white rook of a1 black and the black
\* queen of b4 white, with the en-passant square d6 and the rights K kept
\* as d6 and k
SwappedOnceEditedPosition ==
    /\ op.name = "SwapColors"
    /\ fuel = 1
    /\ PieceOn(input, Sq("a", "1")) = [type |-> "rook", color |-> "w"]
    /\ PieceOn(fen, Sq("a", "1")) = [type |-> "rook", color |-> "b"]
    /\ PieceOn(fen, Sq("b", "4")) = [type |-> "queen", color |-> "w"]
    /\ split(input, " ")[4] = <<"d", "6">>
    /\ split(fen, " ")[4] = <<"d", "6">>
    /\ split(input, " ")[3] = <<"K">>
    /\ split(fen, " ")[3] = <<"k">>

(***************************************************************************)
(* The controls of the position panel.                                     *)
(***************************************************************************)
NoDuplicates(t) == \A i, j \in DOMAIN t : t[i] = t[j] => i = j

\* C14: after a castling toggle (right, enabled) the castling field denotes
\* the rights held before with `right` added (enabled) or removed
\* (disabled); it is "-" when no right is left and otherwise made of letters
\* of K, Q, k, q only, none twice.
CastlingToggleSetsRights ==
    [][op'.name = "CastlingRightsChange" =>
          \A before \in {split(fen, " ")[3]}, after \in {split(fen', " ")[3]} :
             \A rights \in {IF op'.arg[2] THEN RightsOf(before) \cup {op'.arg[1]}
                            ELSE RightsOf(before) \ {op'.arg[1]}} :
                /\ RightsOf(after) = rights
                /\ IF rights = {} THEN after = <<"-">>
                   ELSE /\ \A i \in DOMAIN after : after[i] \in Rights
                        /\ NoDuplicates(after)]_vars

\* C15: a turn set(c) always takes effect: after handleTurnChange the turn
\* field of the stored FEN equals c, whether the parser accepts the new text,
\* rejects it, or answers with a normalized FEN
TurnSetTakesEffect ==
    [][op'.name = "TurnChange" => TurnOf(fen') = op'.arg[1]]_vars

(***************************************************************************)
(* The detection mapper of src/src/visionService.ts: detectionsToFEN.      *)
(*                                                                         *)
(* A detection is [x, y, width, height, class, confidence]; class is a     *)
(* text, confidence a percentage (detectChessPieces keeps 0 <= c <= 1).    *)
(* An optional number (imageWidth?, imageHeight?) is <<>> when it is       *)
(* undefined and <<n>> when it is n. Lengths are held in twentieths of a   *)
(* pixel, so that the 0.05 margin and the half widths stay whole numbers.  *)
(***************************************************************************)
\* string | null of a grid square, and the undefined of a missing table key
NoPiece == "null"

pieceClassToFEN ==
    {
     <<<<"w","h","i","t","e","-","p","a","w","n">>, "P">>,
     <<<<"w","h","i","t","e","-","r","o","o","k">>, "R">>,
     <<<<"w","h","i","t","e","-","k","n","i","g","h","t">>, "N">>,
     <<<<"w","h","i","t","e","-","b","i","s","h","o","p">>, "B">>,
     <<<<"w","h","i","t","e","-","q","u","e","e","n">>, "Q">>,
     <<<<"w","h","i","t","e","-","k","i","n","g">>, "K">>,
     <<<<"b","l","a","c","k","-","p","a","w","n">>, "p">>,
     <<<<"b","l","a","c","k","-","r","o","o","k">>, "r">>,
     <<<<"b","l","a","c","k","-","k","n","i","g","h","t">>, "n">>,
     <<<<"b","l","a","c","k","-","b","i","s","h","o","p">>, "b">>,
     <<<<"b","l","a","c","k","-","q","u","e","e","n">>, "q">>,
     <<<<"b","l","a","c","k","-","k","i","n","g">>, "k">>,
     <<<<"w","-","p","a","w","n">>, "P">>,
     <<<<"w","-","r","o","o","k">>, "R">>,
     <<<<"w","-","k","n","i","g","h","t">>, "N">>,
     <<<<"w","-","b","i","s","h","o","p">>, "B">>,
     <<<<"w","-","q","u","e","e","n">>, "Q">>,
     <<<<"w","-","k","i","n","g">>, "K">>,
     <<<<"b","-","p","a","w","n">>, "p">>,
     <<<<"b","-","r","o","o","k">>, "r">>,
     <<<<"b","-","k","n","i","g","h","t">>, "n">>,
     <<<<"b","-","b","i","s","h","o","p">>, "b">>,
     <<<<"b","-","q","u","e","e","n">>, "q">>,
     <<<<"b","-","k","i","n","g">>, "k">>
    }

\* String.prototype.toLowerCase on a text
LowerText(t) == [i \in DOMAIN t |-> toLowerCase(t[i])]

\* pieceClassToFEN[det.class.toLowerCase()]
FenPieceOf(det) ==
    LET key == LowerText(det.class) IN
    IF \E e \in pieceClassToFEN : e[1] = key
    THEN (CHOOSE e \in pieceClassToFEN : e[1] = key)[2]
    ELSE NoPiece

\* !imageWidth: undefined and 0 are falsy
NotGiven(n) == n = <<>> \/ n[1] = 0

Max(a, b) == IF a > b THEN a ELSE b

\* Math.min / Math.max over the detections, from Infinity / -Infinity
SetMin(S) == CHOOSE m \in S : \A n \in S : m <= n
SetMax(S) == CHOOSE m \in S : \A n \in S : m >= n

\* "Estimate board boundaries from detection positions"; with no detection
\* the width and height are -Infinity, of which only the sign is read
EstimatedBounds(detections) ==
    IF detections = <<>>
    THEN [minX |-> 0, minY |-> 0, boardWidth |-> -1, boardHeight |-> -1]
    ELSE LET minX == SetMin({20 * d.x - 10 * d.width : d \in Range(detections)})
             minY == SetMin({20 * d.y - 10 * d.height : d \in Range(detections)})
             maxX == SetMax({20 * d.x + 10 * d.width : d \in Range(detections)})
             maxY == SetMax({20 * d.y + 10 * d.height : d \in Range(detections)})
         IN [minX |-> minX, minY |-> minY,
             boardWidth |-> maxX - minX, boardHeight |-> maxY - minY]

\* "Assume board takes up most of the image": margin = 0.05
MarginBounds(imageWidth, imageHeight) ==
    [minX |-> imageWidth, minY |-> imageHeight,
     boardWidth |-> 20 * imageWidth - 2 * imageWidth,
     boardHeight |-> 20 * imageHeight - 2 * imageHeight]

BoardBounds(detections, imageWidth, imageHeight) ==
    IF NotGiven(imageWidth) \/ NotGiven(imageHeight)
    THEN EstimatedBounds(detections)
    ELSE MarginBounds(imageWidth[1], imageHeight[1])

\* a variant of clamp that wraps around the board instead
clampWrapped(v) == v % 8

\* Math.max(0, Math.min(7, v))
clamp(v) == Max(0, Min(7, v))

\* Math.floor((center - min) / (boardSize / 8)), for boardSize > 0
CellIndex(center, min, boardSize) == (8 * (20 * center - min)) \div boardSize

EmptyGrid == [row \in 0..7 |-> [col \in 0..7 |-> [piece |-> NoPiece, confidence |-> 0]]]

\* a variant of Outranks under which an equal confidence replaces the piece
OutranksOrTies(det, square) ==
    square.piece = NoPiece \/ det.confidence >= square.confidence

\* !grid[row][col].piece || det.confidence > grid[row][col].confidence
Outranks(det, square) ==
    square.piece = NoPiece \/ det.confidence > square.confidence

\* the body of "Map each detection to a grid square" for one detection
MapDetection(grid, det, bounds) ==
    LET clampedRow == clamp(CellIndex(det.y, bounds.minY, bounds.boardHeight))
        clampedCol == clamp(CellIndex(det.x, bounds.minX, bounds.boardWidth))
        fenPiece == FenPieceOf(det)
    IN IF fenPiece # NoPiece /\ Outranks(det, grid[clampedRow][clampedCol])
       THEN [grid EXCEPT ![clampedRow][clampedCol] =
                [piece |-> fenPiece, confidence |-> det.confidence]]
       ELSE grid

RECURSIVE MapFrom(_, _, _, _)
MapFrom(grid, detections, index, bounds) ==
    IF index > Len(detections) THEN grid
    ELSE MapFrom(MapDetection(grid, detections[index], bounds),
                 detections, index + 1, bounds)

\* one row of "Convert grid to FEN notation"
RECURSIVE GridRank(_, _, _, _)
GridRank(squares, col, emptyCount, fenBoard) ==
    IF col > 7
    THEN IF emptyCount > 0 THEN Append(fenBoard, NumText(emptyCount)) ELSE fenBoard
    ELSE IF squares[col].piece # NoPiece
    THEN GridRank(squares, col + 1, 0,
             Append(IF emptyCount > 0 THEN Append(fenBoard, NumText(emptyCount))
                    ELSE fenBoard,
                    squares[col].piece))
    ELSE GridRank(squares, col + 1, emptyCount + 1, fenBoard)

RECURSIVE GridFrom(_, _)
GridFrom(grid, row) ==
    IF row > 7 THEN <<>>
    ELSE GridRank(grid[row], 0, 0, <<>>)
         \o (IF row < 7 THEN <<"/">> ELSE <<>>)
         \o GridFrom(grid, row + 1)

detectionsToFEN(detections, imageWidth, imageHeight) ==
    LET bounds == BoardBounds(detections, imageWidth, imageHeight) IN
    IF bounds.boardWidth <= 0 \/ bounds.boardHeight <= 0
    THEN EmptyFen
    ELSE GridFrom(MapFrom(EmptyGrid, detections, 1, bounds), 0)
         \o <<" ","w"," ","-"," ","-"," ","0"," ","1">>

(***************************************************************************)
(* The mapper on its own: the run starts from a list of detections and     *)
(* image dimensions, and the one step calls detectionsToFEN on them.       *)
(***************************************************************************)
\* detections in one call of the mapper
MaxDetections == 3

Detection(x, y, size, class, confidence) ==
    [x |-> x, y |-> y, width |-> size, height |-> size,
     class |-> class, confidence |-> confidence]

\* in an 80 x 80 image the board starts at 4 and a square is 9 wide: three
\* detections of the top-left square (two of equal confidence), one beyond
\* the top-right corner, one on the bottom edge, one of an unknown class
DetectionPool ==
    {Detection(8, 8, 8, <<"w","h","i","t","e","-","k","i","n","g">>, 90),
     Detection(10, 6, 8, <<"b","-","q","u","e","e","n">>, 90),
     Detection(5, 12, 8, <<"b","l","a","c","k","-","p","a","w","n">>, 95),
     Detection(100, 0, 8, <<"W","-","R","o","o","k">>, 50),
     Detection(40, 76, 0, <<"w","-","k","n","i","g","h","t">>, 0),
     Detection(8, 8, 8, <<"b","o","a","r","d">>, 99)}

DetectionLists ==
    UNION {[1..n -> DetectionPool] : n \in 0..MaxDetections}

ImageWidths == {<<>>, <<0>>, <<80>>, <<-80>>}
ImageHeights == {<<0>>, <<80>>}

MapperInputs ==
    {[detections |-> d, imageWidth |-> w, imageHeight |-> h] :
        d \in DetectionLists, w \in ImageWidths, h \in ImageHeights}

InitMapper ==
    /\ fen = StartFen
    /\ processingError = "null"
    /\ op = Call("init", NoSquare, NoSquare, Null, "none")
    /\ input \in MapperInputs
    /\ fuel = 1
    /\ scan = NoScan

MapDetections ==
    /\ fuel > 0
    /\ fuel' = fuel - 1
    /\ op' = [Call("detectionsToFEN", NoSquare, NoSquare, Null, "none") EXCEPT
                 !.ret = detectionsToFEN(input.detections, input.imageWidth,
                                         input.imageHeight)]
    /\ UNCHANGED <<fen, processingError, input, scan>>

NextMapper == MapDetections

SpecMapper == InitMapper /\ [][NextMapper]_vars

\* the squares of a rank text, left to right: a letter, or NoPiece for each
\* square a digit stands for
RECURSIVE ExpandRank(_)
ExpandRank(rank) ==
    IF rank = <<>> THEN <<>>
    ELSE IF Head(rank) \in Digit18Set
    THEN [i \in 1..parseInt(Head(rank)) |-> NoPiece] \o ExpandRank(Tail(rank))
    ELSE <<Head(rank)>> \o ExpandRank(Tail(rank))

\* the squares of the board of a FEN text, by 0-based row and column
SquaresOf(f) ==
    LET ranks == split(split(f, " ")[1], "/") IN
    [row \in 0..7 |-> LET squares == ExpandRank(ranks[row + 1]) IN
                      [col \in 0..7 |-> squares[col + 1]]]

\* the index along one axis of the square a centre falls in: the square
\* whose span holds the centre, or the edge square on the centre's side
AxisIndex(center, min, boardSize) ==
    LET offset == 8 * (20 * center - min) IN
    IF offset < 0 THEN 0
    ELSE IF offset >= 8 * boardSize THEN 7
    ELSE CHOOSE c \in 0..7 : c * boardSize <= offset /\ offset < (c + 1) * boardSize

SquareOfDetection(det, bounds) ==
    <<AxisIndex(det.y, bounds.minY, bounds.boardHeight),
      AxisIndex(det.x, bounds.minX, bounds.boardWidth)>>

Recognized(det) == FenPieceOf(det) # NoPiece

Mapped == op.name = "detectionsToFEN"
InputBounds == BoardBounds(input.detections, input.imageWidth, input.imageHeight)
NonDegenerate(bounds) == bounds.boardWidth > 0 /\ bounds.boardHeight > 0

\* C16: among the recognized detections that map to the same square, the
\* piece the mapper places there is that of the earliest detection (in input
\* order) of maximal confidence: a strictly higher confidence wins, an equal
\* one keeps the first
CollisionKeepsEarliestBest ==
    Mapped =>
       \A bounds \in {InputBounds} :
          NonDegenerate(bounds) =>
             \A out \in {SquaresOf(op.ret)}, dets \in {input.detections} :
                \A row \in 0..7, col \in 0..7 :
                   LET here == {i \in DOMAIN dets :
                                   /\ Recognized(dets[i])
                                   /\ SquareOfDetection(dets[i], bounds) = <<row, col>>}
                       best == {i \in here :
                                   \A j \in here : dets[j].confidence <= dets[i].confidence}
                       winner == CHOOSE i \in best : \A j \in best : i <= j
                   IN here # {} => out[row][col] = FenPieceOf(dets[winner])

\* the king and a queen of equal confidence were detected in the top-left
\* square, the king first, and the king stands there
TieKeptFirstSeen ==
    /\ Mapped
    /\ input.imageWidth = <<80>> /\ input.imageHeight = <<80>>
    /\ Len(input.detections) = 2
    /\ FenPieceOf(input.detections[1]) = "K"
    /\ FenPieceOf(input.detections[2]) = "q"
    /\ input.detections[1].confidence = input.detections[2].confidence
    /\ SquaresOf(op.ret)[0][0] = "K"

\* image dimensions that are 0 x 0, or from which the margin computation
\* (a board of 90% of the image) gets a width or a height <= 0
DegenerateDimensions(imageWidth, imageHeight) ==
    /\ imageWidth # <<>> /\ imageHeight # <<>>
    /\ \/ imageWidth[1] = 0 /\ imageHeight[1] = 0
       \/ 18 * imageWidth[1] <= 0
       \/ 18 * imageHeight[1] <= 0

\* C17: called with degenerate image dimensions, the mapper returns the FEN
\* of the empty board, 8/8/8/8/8/8/8/8 w - - 0 1, for any list of detections
DegenerateDimensionsGiveEmptyBoard ==
    Mapped /\ DegenerateDimensions(input.imageWidth, input.imageHeight)
       => op.ret = EmptyFen

\* C18: with non-degenerate bounds every detection of a recognized class is
\* assigned to exactly one square, row and column being the floor of the
\* centre's offset in squares, each clamped to 0..7 on its own: a detection
\* whose centre is outside the bounds lands on an edge square, and its piece
\* is missing from that square only if another detection of the square won
\* the collision; no square holds a piece that no detection put there
DetectionsLandOnTheirSquare ==
    Mapped =>
       \A bounds \in {InputBounds} :
          NonDegenerate(bounds) =>
             \A out \in {SquaresOf(op.ret)}, dets \in {input.detections} :
                /\ \A i \in DOMAIN dets :
                      Recognized(dets[i]) =>
                         \A sq \in {SquareOfDetection(dets[i], bounds)} :
                            /\ out[sq[1]][sq[2]] # NoPiece
                            /\ \/ out[sq[1]][sq[2]] = FenPieceOf(dets[i])
                               \/ \E j \in DOMAIN dets :
                                     /\ j # i
                                     /\ Recognized(dets[j])
                                     /\ SquareOfDetection(dets[j], bounds) = sq
                /\ \A row \in 0..7, col \in 0..7 :
                      out[row][col] # NoPiece =>
                         \E i \in DOMAIN dets :
                            /\ Recognized(dets[i])
                            /\ SquareOfDetection(dets[i], bounds) = <<row, col>>
                            /\ FenPieceOf(dets[i]) = out[row][col]

\* a rook detected beyond the top-right corner of the board of an 80 x 80
\* image stands on the top-right square
OutsideDetectionOnCorner ==
    /\ Mapped
    /\ input.imageWidth = <<80>> /\ input.imageHeight = <<80>>
    /\ Len(input.detections) = 1
    /\ input.detections[1].x = 100 /\ input.detections[1].y = 0
    /\ SquaresOf(op.ret)[0][7] = "R"

(***************************************************************************)
(* The validator on its own: the run starts from a text and the one step   *)
(* calls validateFENFormat on it.                                          *)
(***************************************************************************)
\* board fields: two of 8 ranks of 8 squares, then 7 ranks, 9 ranks, a rank of
\* 9 squares, a rank of 7, an empty rank, a letter that is no piece
BoardTexts ==
    {<<"r","n","b","q","k","b","n","r","/","p","p","p","p","p","p","p","p","/","8","/","8","/","8","/","8","/","P","P","P","P","P","P","P","P","/","R","N","B","Q","K","B","N","R">>,
     <<"8","/","8","/","8","/","8","/","8","/","8","/","8","/","8">>,
     <<"8","/","8","/","8","/","8","/","8","/","8","/","8">>,
     <<"8","/","8","/","8","/","8","/","8","/","8","/","8","/","8","/","8">>,
     <<"8","/","8","/","8","/","8","/","4","P","4","/","8","/","8","/","8">>,
     <<"8","/","8","/","8","/","3","k","3","/","8","/","8","/","8","/","8">>,
     <<"8","/","8","/","8","/","8","/","8","/","8","/","/","8">>,
     <<"8","/","8","/","3","x","4","/","8","/","8","/","8","/","8","/","8">>}

\* turn fields
TurnTexts ==
    {<<"w">>,
     <<"b">>,
     <<"x">>}

\* castling fields
CastlingTexts ==
    {<<"-">>,
     <<"K","Q","k","q">>,
     <<"K","q">>,
     <<"-","K">>,
     <<"K","A">>}

\* en-passant fields
EnPassantTexts ==
    {<<"-">>,
     <<"e","3">>,
     <<"a","6">>,
     <<"e","4">>,
     <<"i","3">>,
     <<"e">>}

\* halfmove and fullmove fields
CounterTexts ==
    {<<"0">>,
     <<"1","2">>,
     <<"-","1">>,
     <<"x">>}

\* texts of 5 and of 7 fields, 6 fields with runs of whitespace between and
\* around them, a board alone, a halfmove of two digits, underscores for the
\* blanks, and a blank alone
SpacedTexts ==
    {<<"8","/","8","/","8","/","8","/","8","/","8","/","8","/","8"," ","w"," ","-"," ","-"," ","0">>,
     <<"8","/","8","/","8","/","8","/","8","/","8","/","8","/","8"," ","w"," ","-"," ","-"," ","0"," ","1"," ","1">>,
     <<" "," ","8","/","8","/","8","/","8","/","8","/","8","/","8","/","8"," ","w"," "," ","-"," ","-","\t","0"," ","1"," ">>,
     <<"8","/","8","/","8","/","8","/","8","/","8","/","8","/","8">>,
     <<"8","/","8","/","8","/","8","/","8","/","8","/","8","/","8"," ","w"," ","-"," ","-"," ","0","1"," ","1">>,
     <<"8","/","8","/","8","/","8","/","8","/","8","/","8","/","8","_","w","_","-","_","-","_","0","_","1">>,
     <<" ">>}

ValidatorInputs ==
    {join(<<board, turn, castling, enPassant, halfmove, <<"1">> >>, " ") :
        board \in BoardTexts, turn \in TurnTexts, castling \in CastlingTexts,
        enPassant \in EnPassantTexts, halfmove \in CounterTexts}
    \cup {join(<<EmptyFen, fullmove>>, "") : fullmove \in CounterTexts}
    \cup SpacedTexts \cup {<<>>}

InitValidator ==
    /\ fen = StartFen
    /\ processingError = "null"
    /\ op = Call("init", NoSquare, NoSquare, Null, "none")
    /\ input \in ValidatorInputs
    /\ fuel = 1
    /\ scan = NoScan

Validate ==
    /\ fuel > 0
    /\ fuel' = fuel - 1
    /\ op' = Call("validateFENFormat", NoSquare, NoSquare, Null,
                  IF validateFENFormat(input) THEN "true" ELSE "false")
    /\ UNCHANGED <<fen, processingError, input, scan>>

NextValidator == Validate

SpecValidator == InitValidator /\ [][NextValidator]_vars

\* the whitespace-separated fields of a text: its maximal runs of characters
\* that are no whitespace, in order
Fields(t) ==
    LET starts == {i \in DOMAIN t :
                      t[i] \notin Whitespace /\ (i = 1 \/ t[i - 1] \in Whitespace)}
        start(k) == CHOOSE i \in starts : Cardinality({j \in starts : j < i}) = k - 1
        end(i) == CHOOSE e \in i..Len(t) :
                     /\ \A j \in i..e : t[j] \notin Whitespace
                     /\ e = Len(t) \/ t[e + 1] \in Whitespace
    IN [k \in 1..Cardinality(starts) |-> SubSeq(t, start(k), end(start(k)))]

\* the conditions of structural validity, as the rule lists them
StructurallyValid(t) ==
    \A fields \in {Fields(t)} :
       /\ Len(fields) = 6
       /\ \A ranks \in {split(fields[1], "/")} :
             /\ Len(ranks) = 8
             /\ \A i \in 1..8 :
                   /\ Range(ranks[i]) \subseteq
                         {"r","n","b","q","k","p","R","N","B","Q","K","P"} \cup Digit18Set
                   /\ Len(ExpandRank(ranks[i])) = 8
       /\ fields[2] = <<"w">> \/ fields[2] = <<"b">>
       /\ fields[3] = <<"-">> \/ Range(fields[3]) \subseteq {"K", "Q", "k", "q"}
       /\ \/ fields[4] = <<"-">>
          \/ /\ Len(fields[4]) = 2
             /\ fields[4][1] \in {"a","b","c","d","e","f","g","h"}
             /\ fields[4][2] \in {"3", "6"}
       /\ Range(fields[5]) \subseteq DigitSet
       /\ Range(fields[6]) \subseteq DigitSet

Validated == op.name = "validateFENFormat"

\* C19: the structural validator answers true exactly when the text has 6
\* whitespace-separated fields, a board of 8 ranks, each of the characters
\* rnbqkpRNBQKP1-8 and summing to 8 columns, a turn w or b, a castling field
\* "-" or of letters of KQkq, an en-passant field "-" or a file a-h with rank
\* 3 or 6, and halfmove and fullmove that are non-negative integers
ValidatorMatchesRule ==
    Validated => (op.ret = "true" <=> StructurallyValid(input))

\* a board of 7 ranks was rejected, every other field being in order
SevenRanksRejected ==
    /\ Validated
    /\ op.ret = "false"
    /\ \A fields \in {Fields(input)} :
          /\ Len(fields) = 6
          /\ Len(split(fields[1], "/")) = 7
          /\ fields[2] = <<"w">> /\ fields[3] = <<"-">> /\ fields[4] = <<"-">>
          /\ fields[5] = <<"0">> /\ fields[6] = <<"1">>

(***************************************************************************)
(* The outbound links: the four handlers that open a page on the current   *)
(* position. An opened URL is its fixed head and the text built from the   *)
(* FEN; window.confirm answers either way.                                 *)
(***************************************************************************)
\* the kings of one letter on the board part of the FEN
KingCount(f, king) ==
    LET boardPart == split(f, " ")[1] IN
    Cardinality({i \in DOMAIN boardPart : boardPart[i] = king})

\* checkKingCounts(): the warnings, one at most for each side
checkKingCounts(f) ==
    (IF KingCount(f, "K") = 0 THEN {"White is missing a king"}
     ELSE IF KingCount(f, "K") > 1 THEN {"White has kings (should be 1)"}
     ELSE {})
    \cup
    (IF KingCount(f, "k") = 0 THEN {"Black is missing a king"}
     ELSE IF KingCount(f, "k") > 1 THEN {"Black has kings (should be 1)"}
     ELSE {})

\* the answers of window.confirm, asked only when there are warnings
Confirmations(f) == IF checkKingCounts(f) # {} THEN BOOLEAN ELSE {TRUE}

\* /[^rnbqkpRNBQKP0-9\/_wbKQkq-]/g
LichessChars ==
    {"r","n","b","q","k","p","R","N","B","Q","K","P"} \cup DigitSet
    \cup {"/", "_", "w", "b", "K", "Q", "k", "q", "-"}

\* fenToAnalyze.replace(/ /g, '_').replace(/[^rnbqkpRNBQKP0-9\/_wbKQkq-]/g, '')
LichessFEN(f) ==
    SelectSeq([i \in DOMAIN f |-> IF f[i] = " " THEN "_" ELSE f[i]],
              LAMBDA c : c \in LichessChars)

\* the characters encodeURIComponent leaves as they are
UnreservedChars ==
    UpperSet \cup LowerSet \cup DigitSet
    \cup {"-", "_", ".", "!", "~", "*", "'", "(", ")"}

\* the escapes of the other characters a validated text can hold
PercentCode ==
    [c \in {" ", "/", "\t", "\n"} |->
        IF c = " " THEN <<"%", "2", "0">>
        ELSE IF c = "/" THEN <<"%", "2", "F">>
        ELSE IF c = "\t" THEN <<"%", "0", "9">>
        ELSE <<"%", "0", "A">>]

RECURSIVE encodeURIComponent(_)
encodeURIComponent(f) ==
    IF f = <<>> THEN <<>>
    ELSE (IF Head(f) \in UnreservedChars THEN <<Head(f)>> ELSE PercentCode[Head(f)])
         \o encodeURIComponent(Tail(f))

\* a handler call that returns before window.open, and one that reaches it
Returned(name) == Call(name, NoSquare, NoSquare, Null, "none")
Opened(name, head, text) ==
    [Returned(name) EXCEPT !.opened = << [head |-> head, text |-> text] >>]

\* a variant of handleEditFENTool without the validation
EditFENToolUnchecked ==
    /\ Counted
    /\ op' = Opened("EditFENTool", "https://mutsuntsai.github.io/fen-tool/?fen=",
                    encodeURIComponent(fen))
    /\ UNCHANGED <<fen, processingError>>

handleAnalyzeLichess ==
    /\ Counted
    /\ UNCHANGED fen
    /\ IF ~validateFENFormat(fen)
       THEN /\ processingError' = "Invalid FEN format. Cannot open analysis."
            /\ op' = Returned("AnalyzeLichess")
       ELSE \E confirmed \in Confirmations(fen) :
               IF ~confirmed
               THEN /\ op' = Returned("AnalyzeLichess")
                    /\ UNCHANGED processingError
               ELSE IF Len(LichessFEN(fen)) > 200
               THEN /\ processingError' = "FEN string too long for analysis."
                    /\ op' = Returned("AnalyzeLichess")
               ELSE /\ op' = Opened("AnalyzeLichess", "https://lichess.org/analysis/",
                                    LichessFEN(fen))
                    /\ UNCHANGED processingError

handleAnalyzeChessCom ==
    /\ Counted
    /\ UNCHANGED fen
    /\ IF ~validateFENFormat(fen)
       THEN /\ processingError' = "Invalid FEN format. Cannot open analysis."
            /\ op' = Returned("AnalyzeChessCom")
       ELSE \E confirmed \in Confirmations(fen) :
               /\ UNCHANGED processingError
               /\ op' = IF ~confirmed THEN Returned("AnalyzeChessCom")
                        ELSE Opened("AnalyzeChessCom",
                                    "https://www.chess.com/analysis?fen=",
                                    encodeURIComponent(fen))

handleEditorLichess ==
    /\ Counted
    /\ UNCHANGED fen
    /\ IF ~validateFENFormat(fen)
       THEN /\ processingError' = "Invalid FEN format. Cannot open editor."
            /\ op' = Returned("EditorLichess")
       ELSE \E confirmed \in Confirmations(fen) :
               IF ~confirmed
               THEN /\ op' = Returned("EditorLichess")
                    /\ UNCHANGED processingError
               ELSE IF Len(LichessFEN(fen)) > 200
               THEN /\ processingError' = "FEN string too long for editor."
                    /\ op' = Returned("EditorLichess")
               ELSE /\ op' = Opened("EditorLichess", "https://lichess.org/editor/",
                                    LichessFEN(fen))
                    /\ UNCHANGED processingError

handleEditFENTool ==
    /\ Counted
    /\ UNCHANGED fen
    /\ IF ~validateFENFormat(fen)
       THEN /\ processingError' = "Invalid FEN format. Cannot open FEN Tool."
            /\ op' = Returned("EditFENTool")
       ELSE /\ op' = Opened("EditFENTool", "https://mutsuntsai.github.io/fen-tool/?fen=",
                            encodeURIComponent(fen))
            /\ UNCHANGED processingError

\* the position panel and the link buttons, from the initial position: three
\* handler calls reach a link on a position whose castling field was edited
\* after Clear
InitLinks ==
    /\ fen = StartFen
    /\ processingError = "null"
    /\ op = Call("init", NoSquare, NoSquare, Null, "none")
    /\ input = StartFen
    /\ fuel = 3
    /\ scan = NoScan

NextLinks ==
    \/ Clear
    \/ \E r \in Rights, e \in BOOLEAN : CastlingRightsChange(r, e, TRUE)
    \/ handleAnalyzeLichess
    \/ handleAnalyzeChessCom
    \/ handleEditorLichess
    \/ handleEditFENTool

SpecLinks == InitLinks /\ [][NextLinks]_vars

LinkNames == {"AnalyzeLichess", "AnalyzeChessCom", "EditorLichess", "EditFENTool"}
InvalidMessages ==
    {"Invalid FEN format. Cannot open analysis.",
     "Invalid FEN format. Cannot open editor.",
     "Invalid FEN format. Cannot open FEN Tool."}

\* C20: each of the four link handlers opens a URL only if the current FEN
\* passes the structural validation; when it does not, the handler opens
\* nothing, sets an error message and leaves the FEN as it is
NoLinkWithoutValidation ==
    [][op'.name \in LinkNames =>
          \A valid \in {validateFENFormat(fen)} :
             /\ op'.opened # <<>> => valid
             /\ ~valid => /\ op'.opened = <<>>
                          /\ processingError' \in InvalidMessages
                          /\ fen' = fen]_vars

\* a link was asked for on a position whose castling field is "-" and a
\* letter, and was refused
LinkRefusedOnEditedCastling ==
    /\ op.name \in LinkNames
    /\ ~validateFENFormat(fen)
    /\ Len(split(fen, " ")[3]) = 2 /\ split(fen, " ")[3][1] = "-"
    /\ op.opened = <<>>
    /\ processingError \in InvalidMessages

(***************************************************************************)
(* The image upload: handleImageUpload (src/src/App.jsx) and               *)
(* processImageToFEN, validateImageFileContent and detectChessPieces       *)
(* (src/src/visionService.ts).                                             *)
(*                                                                         *)
(* A file is its size in bytes, its declared type (a text), its leading    *)
(* bytes and the width and height of the image it decodes to. A call of    *)
(* handleImageUpload runs to its first pending callback in the step of the *)
(* change event; every callback (the two FileReader loads, the image load, *)
(* the HTTP response) is a step of its own, and with the promise           *)
(* continuations that follow it, up to the next pending callback or to     *)
(* the finally block, it is one step.                                      *)
(***************************************************************************)
\* const MAX_FILE_SIZE = 10 * 1024 * 1024
MAX_FILE_SIZE == 10485760
\* const MAX_DIMENSION = 5000, const MIN_DIMENSION = 50
MAX_DIMENSION == 5000
MIN_DIMENSION == 50

ALLOWED_MIME_TYPES ==
    {<<"i","m","a","g","e","/","j","p","e","g">>,
     <<"i","m","a","g","e","/","j","p","g">>,
     <<"i","m","a","g","e","/","p","n","g">>,
     <<"i","m","a","g","e","/","g","i","f">>,
     <<"i","m","a","g","e","/","w","e","b","p">>}

\* bytes[i] of the Uint8Array, 0-based; undefined (-1 here) past its end
ByteAt(bytes, i) == IF i + 1 <= Len(bytes) THEN bytes[i + 1] ELSE -1

\* the isValid of validateImageFileContent's reader.onload, on the first 12
\* bytes of the file: JPEG FF D8 FF, PNG 89 50 4E 47, GIF 47 49 46 38,
\* RIFF 52 49 46 46 followed at 8 by WEBP
validateImageFileContent(bytes) ==
    \/ ByteAt(bytes, 0) = 255 /\ ByteAt(bytes, 1) = 216 /\ ByteAt(bytes, 2) = 255
    \/ /\ ByteAt(bytes, 0) = 137 /\ ByteAt(bytes, 1) = 80
       /\ ByteAt(bytes, 2) = 78 /\ ByteAt(bytes, 3) = 71
    \/ /\ ByteAt(bytes, 0) = 71 /\ ByteAt(bytes, 1) = 73
       /\ ByteAt(bytes, 2) = 70 /\ ByteAt(bytes, 3) = 56
    \/ /\ ByteAt(bytes, 0) = 82 /\ ByteAt(bytes, 1) = 73
       /\ ByteAt(bytes, 2) = 70 /\ ByteAt(bytes, 3) = 70
       /\ Len(bytes) >= 12
       /\ <<ByteAt(bytes, 8), ByteAt(bytes, 9), ByteAt(bytes, 10), ByteAt(bytes, 11)>>
             = <<87, 69, 66, 80>>

\* the checks of processImageToFEN before its first await: the message of
\* the Error thrown, or "null"
FileError(file) ==
    IF file.size > MAX_FILE_SIZE
    THEN "File size must be less than 10MB"
    ELSE IF LowerText(file.type) \notin ALLOWED_MIME_TYPES
    THEN "Invalid file type. Please upload a JPEG, PNG, GIF, or WebP image."
    ELSE "null"

\* a variant of DimensionError that lets every image through
DimensionErrorNone(file) == "null"

\* the checks of img.onload: the message of the rejection, or "null"
DimensionError(file) ==
    IF file.width > MAX_DIMENSION \/ file.height > MAX_DIMENSION
    THEN "Image dimensions must be less than 5000x5000 pixels"
    ELSE IF file.width < MIN_DIMENSION \/ file.height < MIN_DIMENSION
    THEN "Image dimensions must be at least 50x50 pixels"
    ELSE "null"

\* validateDetection, with the confidence as a percentage
validateDetection(det) ==
    /\ det.x >= 0 /\ det.y >= 0
    /\ det.width >= 0 /\ det.height >= 0
    /\ det.confidence >= 0 /\ det.confidence <= 100

\* a variant of detectChessPieces that does not filter the predictions
detectChessPiecesUnfiltered(response) == response.predictions

\* what detectChessPieces resolves to for a response of the vision service:
\* the valid predictions, and [] from the catch block when the call failed
detectChessPieces(response) ==
    IF response.ok THEN SelectSeq(response.predictions, validateDetection)
    ELSE <<>>

\* a variant of CeilSeconds that rounds down
FloorSeconds(ms) == ms \div 1000

\* Math.ceil(ms / 1000) for ms > 0
CeilSeconds(ms) == (ms + 999) \div 1000

\* `Please wait ${waitTime} second${waitTime > 1 ? 's' : ''} before ...`
WaitMessage(waitTime) ==
    IF waitTime > 1 THEN "Please wait N seconds before uploading another image."
    ELSE "Please wait 1 second before uploading another image."

\* uploads explored in one run, and steps of the clock
MaxUploads == 2
MaxTicks == 2

ImageFile(size, type, bytes, width, height) ==
    [size |-> size, type |-> type, bytes |-> bytes, width |-> width, height |-> height]

\* event.target.files?.[0] when no file was chosen
NoFile == ImageFile(0, <<>>, <<>>, 0, 0)

ImagePng == <<"i","m","a","g","e","/","p","n","g">>
ImageJpeg == <<"i","m","a","g","e","/","j","p","e","g">>
ImageJpg == <<"i","m","a","g","e","/","j","p","g">>
ImageGif == <<"i","m","a","g","e","/","g","i","f">>
ImageWebp == <<"i","m","a","g","e","/","w","e","b","p">>

\* the leading bytes of a file of each format, by its declared type
SignatureOf(type) ==
    IF type = ImagePng THEN <<137, 80, 78, 71, 13, 10, 26, 10>>
    ELSE IF type = ImageGif THEN <<71, 73, 70, 56, 57, 97>>
    ELSE IF type = ImageWebp THEN <<82, 73, 70, 70, 0, 0, 0, 0, 87, 69, 66, 80>>
    ELSE <<255, 216, 255, 224>>

\* the files of the runs with several uploads: a PNG image of 80 x 80, the
\* same declared as IMAGE/PNG, a text file declared as PNG, a PNG of 40 x
\* 80, and a file of a type that is not allowed
ScanFiles ==
    {ImageFile(1000, ImagePng, SignatureOf(ImagePng), 80, 80),
     ImageFile(1000, <<"I","M","A","G","E","/","P","N","G">>, SignatureOf(ImagePng), 80, 80),
     ImageFile(1000, ImagePng, <<104, 101, 108, 108, 111>>, 80, 80),
     ImageFile(1000, ImagePng, SignatureOf(ImagePng), 40, 80),
     ImageFile(1000, <<"t","e","x","t","/","p","l","a","i","n">>,
               SignatureOf(ImagePng), 80, 80)}

\* the files of the runs with one upload: every declared type with the
\* leading bytes of every format, sizes on both sides of the limit, sides on
\* both sides of the two limits, and leading bytes of no image format
CheckedFiles ==
    {ImageFile(size, type, SignatureOf(content), side, 80) :
        size \in {MAX_FILE_SIZE, MAX_FILE_SIZE + 1},
        type \in ALLOWED_MIME_TYPES \cup {<<"i","m","a","g","e","/","b","m","p">>},
        content \in ALLOWED_MIME_TYPES,
        side \in {MIN_DIMENSION - 1, MIN_DIMENSION, MAX_DIMENSION, MAX_DIMENSION + 1}}
    \cup {ImageFile(1000, type, bytes, 80, 80) :
             type \in ALLOWED_MIME_TYPES,
             bytes \in {<<>>, <<255, 216>>, <<82, 73, 70, 70, 0, 0, 0, 0, 87, 65, 86, 69>>,
                        <<82, 73, 70, 70, 0, 0, 0, 0, 87, 69, 66>>}}

\* the responses of the vision service to one request: a failure (network,
\* auth, HTTP error), no prediction, a prediction that is not valid, and
\* predictions that map to positions with one king, two and none
KingAt(x, y, confidence) ==
    Detection(x, y, 8, <<"w","h","i","t","e","-","k","i","n","g">>, confidence)
Responses ==
    {[ok |-> FALSE, predictions |-> <<>>],
     [ok |-> TRUE, predictions |-> <<>>],
     [ok |-> TRUE, predictions |-> <<KingAt(8, 8, 150)>>],
     [ok |-> TRUE, predictions |-> <<KingAt(8, 8, 90)>>],
     [ok |-> TRUE, predictions |-> <<KingAt(8, 8, 90), KingAt(40, 40, 80),
           Detection(70, 70, 8, <<"b","-","k","i","n","g">>, 70)>>],
     [ok |-> TRUE, predictions |->
        <<Detection(40, 40, 8, <<"b","-","p","a","w","n">>, 60)>>]}

\* the record of a step of handleImageUpload: the upload it belongs to, how
\* far the call got, and the value the step was given
Upload(name, id, ret, arg) ==
    [Call(name, NoSquare, NoSquare, Null, ret) EXCEPT !.arg = <<id>> \o arg]

\* a variant of Failed without the finally block
FailedWithoutFinally(call, message, name, arg) ==
    /\ processingError' = message
    /\ scan' = [scan EXCEPT !.calls = @ \ {call}]
    /\ op' = Upload(name, call.id, "failed", arg)
    /\ UNCHANGED fen

\* the catch and finally blocks of handleImageUpload for the call of upload
\* id: the message is shown and the processing flag is cleared
Failed(call, message, name, arg) ==
    /\ processingError' = message
    /\ scan' = [scan EXCEPT !.isProcessing = FALSE, !.calls = @ \ {call}]
    /\ op' = Upload(name, call.id, "failed", arg)
    /\ UNCHANGED fen

\* a variant of the Upload Image button that is never disabled
ScanButtonAlwaysEnabled == TRUE

\* the Upload Image button: disabled={isProcessing}; the file dialog, and so
\* the change event of the file input, is reached through this button only
ScanButtonEnabled == ~scan.isProcessing

\* the change event of the file input with the chosen file: the cooldown,
\* then processImageToFEN up to the FileReader of validateImageFileContent
handleImageUpload(file) ==
    /\ ScanButtonEnabled
    /\ scan.uploads < input.uploads
    /\ UNCHANGED <<fen, input, fuel>>
    /\ LET id == scan.uploads + 1
           timeSinceLastCall == scan.now - scan.lastApiCallRef
       IN IF file = NoFile
          THEN /\ scan' = [scan EXCEPT !.uploads = id]
               /\ op' = Upload("ImageUpload", id, "none", <<>>)
               /\ UNCHANGED processingError
          ELSE IF timeSinceLastCall < API_CALL_COOLDOWN
          THEN LET waitTime == CeilSeconds(API_CALL_COOLDOWN - timeSinceLastCall) IN
               /\ processingError' = WaitMessage(waitTime)
               /\ scan' = [scan EXCEPT !.uploads = id, !.rejected = @ \cup {id}]
               /\ op' = Upload("ImageUpload", id, "rejected", <<waitTime>>)
          ELSE IF FileError(file) # "null"
          THEN /\ processingError' = FileError(file)
               /\ scan' = [scan EXCEPT !.uploads = id, !.lastApiCallRef = scan.now,
                                       !.isProcessing = FALSE]
               /\ op' = Upload("ImageUpload", id, "failed", <<file>>)
          ELSE /\ processingError' = "null"
               /\ scan' = [scan EXCEPT !.uploads = id, !.lastApiCallRef = scan.now,
                                       !.isProcessing = TRUE,
                                       !.calls = @ \cup {[id |-> id, file |-> file,
                                                          pc |-> "content"]}]
               /\ op' = Upload("ImageUpload", id, "pending", <<file>>)

\* the call waits for its next callback
Resumed(call, pc, name) ==
    /\ scan' = [scan EXCEPT !.calls = (@ \ {call}) \cup {[call EXCEPT !.pc = pc]}]
    /\ op' = Upload(name, call.id, "pending", <<call.file>>)
    /\ UNCHANGED <<fen, processingError>>

\* reader.onload / reader.onerror of validateImageFileContent, then
\* processImageToFEN up to reader.readAsDataURL
ContentLoaded(call) ==
    /\ call.pc = "content"
    /\ UNCHANGED <<input, fuel>>
    /\ \E loaded \in BOOLEAN :
          LET isValidContent == loaded /\ validateImageFileContent(call.file.bytes) IN
          IF ~isValidContent
          THEN Failed(call, "Invalid image file. File content does not match declared type.",
                      "ContentLoaded", <<call.file>>)
          ELSE Resumed(call, "read", "ContentLoaded")

\* reader.onload / reader.onerror of readAsDataURL: img.src = base64Image
DataLoaded(call) ==
    /\ call.pc = "read"
    /\ UNCHANGED <<input, fuel>>
    /\ \E loaded \in BOOLEAN :
          IF ~loaded
          THEN Failed(call, "Failed to read image file", "DataLoaded", <<call.file>>)
          ELSE Resumed(call, "image", "DataLoaded")

\* img.onload / img.onerror: the dimension checks, then detectChessPieces up to
\* axios.post; without an API key it resolves to [] and nothing is posted
ImageLoaded(call) ==
    /\ call.pc = "image"
    /\ UNCHANGED <<input, fuel>>
    /\ \E loaded \in BOOLEAN, ROBOFLOW_API_KEY \in BOOLEAN :
          IF ~loaded
          THEN Failed(call, "Failed to load image", "ImageLoaded", <<call.file>>)
          ELSE IF DimensionError(call.file) # "null"
          THEN Failed(call, DimensionError(call.file), "ImageLoaded", <<call.file>>)
          ELSE IF ~ROBOFLOW_API_KEY
          THEN Failed(call, "No pieces detected in image", "ImageLoaded", <<call.file>>)
          ELSE /\ scan' = [scan EXCEPT !.calls = (@ \ {call})
                                          \cup {[call EXCEPT !.pc = "detect"]},
                                       !.sent = @ \cup {call.id},
                                       !.outstanding = @ + 1]
               /\ op' = Upload("ImageLoaded", call.id, "posted", <<call.file>>)
               /\ UNCHANGED <<fen, processingError>>

\* the response of axios.post, or its failure: detectionsToFEN on the valid
\* predictions, new Chess(fen), and the finally block
Responded(call) ==
    /\ call.pc = "detect"
    /\ UNCHANGED <<input, fuel>>
    /\ \E response \in Responses :
          LET detections == detectChessPieces(response)
              done == [scan EXCEPT !.isProcessing = FALSE, !.calls = @ \ {call},
                                   !.outstanding = @ - 1]
          IN IF Len(detections) = 0
             THEN /\ processingError' = "No pieces detected in image"
                  /\ scan' = done
                  /\ op' = Upload("Responded", call.id, "empty", <<response>>)
                  /\ UNCHANGED fen
             ELSE \E newGame \in Chess(detectionsToFEN(detections, <<call.file.width>>,
                                                       <<call.file.height>>), TRUE) :
                     /\ scan' = done
                     /\ IF newGame.ok
                        THEN /\ fen' = newGame.fen
                             /\ op' = Upload("Responded", call.id, "done", <<response>>)
                             /\ UNCHANGED processingError
                        ELSE /\ processingError' =
                                "Detected position may be invalid. Please verify the board."
                             /\ op' = Upload("Responded", call.id, "refused", <<response>>)
                             /\ UNCHANGED fen

\* time passes on the clock of Date.now()
Tick(ms) ==
    /\ scan.now - API_CALL_COOLDOWN < input.elapsed
    /\ scan' = [scan EXCEPT !.now = @ + ms]
    /\ op' = Call("Tick", NoSquare, NoSquare, Null, "none")
    /\ UNCHANGED <<fen, processingError, input, fuel>>

TickSteps == {400, 600}

ScanInput(files, uploads, elapsed) ==
    [files |-> files, uploads |-> uploads, elapsed |-> elapsed]

InitScan ==
    /\ fen = StartFen
    /\ processingError = "null"
    /\ op = Call("init", NoSquare, NoSquare, Null, "none")
    /\ input = ScanInput(ScanFiles \cup {NoFile}, MaxUploads, 400 * MaxTicks)
    /\ fuel = 1
    /\ scan = NoScan

\* uploads, their callbacks in any order, the clock, and Clear as the edit
\* that can fall between two steps of a scan
NextScan ==
    \/ \E file \in input.files : handleImageUpload(file)
    \/ \E call \in scan.calls : ContentLoaded(call)
    \/ \E call \in scan.calls : DataLoaded(call)
    \/ \E call \in scan.calls : ImageLoaded(call)
    \/ \E call \in scan.calls : Responded(call)
    \/ \E ms \in TickSteps : Tick(ms)
    \/ Clear

SpecScan == InitScan /\ [][NextScan]_vars

\* the change event of a chosen file happened in this step
UploadIssued == scan'.uploads # scan.uploads /\ op'.ret # "none"

\* C21: an upload issued less than 1000 ms after the last accepted upload is
\* rejected and not queued: the step starts no call and posts no request, it
\* shows a message whose wait time is no smaller than the rest of the
\* cooldown, it leaves the start of the cooldown where it was, and no request
\* is posted for that upload at any later time either
CooldownRejectsUpload ==
    /\ [][UploadIssued /\ scan.now - scan.lastApiCallRef < API_CALL_COOLDOWN =>
            /\ op'.ret = "rejected"
            /\ scan'.calls = scan.calls
            /\ scan'.sent = scan.sent
            /\ scan'.outstanding = scan.outstanding
            /\ scan'.isProcessing = scan.isProcessing
            /\ scan'.lastApiCallRef = scan.lastApiCallRef
            /\ processingError' = WaitMessage(op'.arg[2])
            /\ 1000 * op'.arg[2] >= API_CALL_COOLDOWN - (scan.now - scan.lastApiCallRef)
            /\ fen' = fen]_vars
    /\ [](/\ scan.rejected \cap scan.sent = {}
          /\ \A call \in scan.calls : call.id \notin scan.rejected)

\* the second of two uploads 400 ms apart was rejected with a wait of 1 s
SecondUploadAfter400msRejected ==
    /\ op.name = "ImageUpload"
    /\ op.ret = "rejected"
    /\ op.arg = <<2, 1>>
    /\ scan.now - scan.lastApiCallRef = 400
    /\ scan.sent = {}

\* one upload of any of the checked files
InitFiles ==
    /\ fen = StartFen
    /\ processingError = "null"
    /\ op = Call("init", NoSquare, NoSquare, Null, "none")
    /\ input = ScanInput(CheckedFiles, 1, 400)
    /\ fuel = 1
    /\ scan = NoScan

SpecFiles == InitFiles /\ [][NextScan]_vars

\* t starts with the bytes of prefix
StartsWith(t, prefix) ==
    Len(t) >= Len(prefix) /\ SubSeq(t, 1, Len(prefix)) = prefix

\* the leading bytes are the magic number of JPEG, PNG, GIF or WebP
HasImageSignature(bytes) ==
    \/ StartsWith(bytes, <<255, 216, 255>>)
    \/ StartsWith(bytes, <<137, 80, 78, 71>>)
    \/ StartsWith(bytes, <<71, 73, 70, 56>>)
    \/ StartsWith(bytes, <<82, 73, 70, 70>>) /\ Len(bytes) >= 12
       /\ SubSeq(bytes, 9, 12) = <<87, 69, 66, 80>>

PassesSizeAndType(file) ==
    /\ file.size <= 10 * 1024 * 1024
    /\ LowerText(file.type) \in {ImageJpeg, ImageJpg, ImagePng, ImageGif, ImageWebp}
PassesDimensions(file) ==
    \A side \in {file.width, file.height} : side >= 50 /\ side <= 5000

\* C22: an upload whose file fails the size check, the MIME check, the
\* magic-number check or the dimension check is rejected at that check, and
\* no request is posted for it at any point of the scan
InvalidImageNeverPosted ==
    /\ [][op'.ret = "posted" =>
            \A file \in {op'.arg[2]} :
               /\ PassesSizeAndType(file)
               /\ HasImageSignature(file.bytes)
               /\ PassesDimensions(file)]_vars
    /\ [](\A call \in scan.calls :
             /\ PassesSizeAndType(call.file)
             /\ call.pc \in {"read", "image", "detect"} => HasImageSignature(call.file.bytes)
             /\ call.pc = "detect" => PassesDimensions(call.file))
    /\ [][/\ op'.name \in {"ImageUpload", "ContentLoaded", "ImageLoaded"}
          /\ op'.ret \in {"pending", "failed", "posted"}
          /\ \/ op'.name = "ImageUpload" /\ ~PassesSizeAndType(op'.arg[2])
             \/ op'.name = "ContentLoaded" /\ ~HasImageSignature(op'.arg[2].bytes)
             \/ op'.name = "ImageLoaded" /\ ~PassesDimensions(op'.arg[2])
          => /\ op'.ret = "failed"
             /\ ~scan'.isProcessing
             /\ processingError' # "null"
             /\ scan'.sent = scan.sent
             /\ scan'.calls = scan.calls \ {call \in scan.calls : call.id = op'.arg[1]}
             /\ fen' = fen]_vars

\* an image of 5001 pixels across, of an allowed type and with its magic
\* number, was rejected when it had loaded, and nothing was posted
OversizedImageRejected ==
    /\ op.name = "ImageLoaded"
    /\ op.ret = "failed"
    /\ op.arg[2].width = 5001
    /\ PassesSizeAndType(op.arg[2])
    /\ HasImageSignature(op.arg[2].bytes)
    /\ processingError = "Image dimensions must be less than 5000x5000 pixels"
    /\ scan.sent = {}

\* the image format a declared type stands for, and the magic number of each
FormatOf(type) ==
    IF LowerText(type) \in {ImageJpeg, ImageJpg} THEN "jpeg"
    ELSE IF LowerText(type) = ImagePng THEN "png"
    ELSE IF LowerText(type) = ImageGif THEN "gif"
    ELSE IF LowerText(type) = ImageWebp THEN "webp"
    ELSE "none"

HasSignatureOf(bytes, format) ==
    IF format = "jpeg" THEN StartsWith(bytes, <<255, 216, 255>>)
    ELSE IF format = "png" THEN StartsWith(bytes, <<137, 80, 78, 71>>)
    ELSE IF format = "gif" THEN StartsWith(bytes, <<71, 73, 70, 56>>)
    ELSE /\ format = "webp"
         /\ StartsWith(bytes, <<82, 73, 70, 70>>) /\ Len(bytes) >= 12
         /\ SubSeq(bytes, 9, 12) = <<87, 69, 66, 80>>

\* the file is declared as one allowed format and starts with the magic
\* number of another
ContentMismatch(file) ==
    /\ FormatOf(file.type) # "none"
    /\ \E format \in {"jpeg", "png", "gif", "webp"} :
          format # FormatOf(file.type) /\ HasSignatureOf(file.bytes, format)

\* C23: a file whose leading bytes are the signature of an image format other
\* than the one of its declared MIME type is rejected as an invalid image
\* when its content has been read
ContentMismatchRejected ==
    [][op'.name = "ContentLoaded" /\ ContentMismatch(op'.arg[2]) =>
          /\ op'.ret = "failed"
          /\ processingError' =
                "Invalid image file. File content does not match declared type."]_vars

\* the detection call failed, or none of its predictions is a valid one
NothingDetected(response) ==
    \/ ~response.ok
    \/ \A i \in DOMAIN response.predictions :
          \/ response.predictions[i].confidence < 0
          \/ response.predictions[i].confidence > 100
          \/ response.predictions[i].x < 0 \/ response.predictions[i].y < 0
          \/ response.predictions[i].width < 0 \/ response.predictions[i].height < 0

\* C24: when the detection call fails or yields no valid detection, the scan
\* ends as 'no pieces detected': the message is shown, the processing flag
\* is cleared, and the current FEN is what it was just before the scan ended,
\* edits made while the scan was in flight included
FailedScanKeepsBoard ==
    /\ [][op'.name = "Responded" /\ NothingDetected(op'.arg[2]) =>
            /\ op'.ret = "empty"
            /\ processingError' = "No pieces detected in image"
            /\ ~scan'.isProcessing
            /\ fen' = fen]_vars
    /\ [][/\ op'.name \in {"ImageLoaded", "Responded"}
          /\ op'.ret \in {"failed", "empty"}
          /\ processingError' = "No pieces detected in image"
          => fen' = fen /\ ~scan'.isProcessing]_vars

\* the detection call failed, and the board is the one Clear left
FailedScanAfterClear ==
    /\ op.name = "Responded"
    /\ op.ret = "empty"
    /\ ~op.arg[2].ok
    /\ fuel = 0
    /\ fen = EmptyFen
    /\ processingError = "No pieces detected in image"
    /\ ~scan.isProcessing

(***************************************************************************)
(* The edits on texts of any shape: the guards of the decoding.            *)
(***************************************************************************)
\* the edited position, its board alone, the position without its last
\* field, with a seventh field, with two blanks after the board, with a
\* board of 7 ranks and with one of 9, and the empty text
ShapedTexts ==
    {EditedFen,
     split(EditedFen, " ")[1],
     SubSeq(EditedFen, 1, Len(EditedFen) - 2),
     EditedFen \o <<" ", "x">>,
     join(<<split(EditedFen, " ")[1], <<>>, <<"b">>, <<"-">>, <<"-">>, <<"0">>, <<"1">> >>, " "),
     <<"8","/","8","/","8","/","8","/","8","/","8","/","K","7">> \o SubSeq(EmptyFen, 16, 25),
     <<"8","/">> \o EmptyFen,
     <<>>}

InitDecode ==
    /\ fen \in ShapedTexts
    /\ processingError = "null"
    /\ op = Call("init", NoSquare, NoSquare, Null, "none")
    /\ input = fen
    /\ fuel = 1
    /\ scan = NoScan

NextDecode ==
    \/ \E p \in EditPieces, t \in EditSquares : Place(p, t, TRUE)
    \/ \E s \in EditSquares : Remove(s, TRUE)
    \/ \E s \in EditSquares, t \in EditSquares : Move(s, t, TRUE)

SpecDecode == InitDecode /\ [][NextDecode]_vars

\* the text has the shape of a FEN: 6 whitespace-separated fields, the first
\* of 8 ranks
WellShaped(t) ==
    \A fields \in {Fields(t)} :
       Len(fields) = 6 /\ Len(split(fields[1], "/")) = 8

OneRequestOutstanding ==
    /\ scan.outstanding <= 1
    /\ Cardinality({call \in scan.calls : call.pc = "detect"}) <= 1

\* a request has been outstanding for the whole cooldown, and an upload is
\* still to come
RequestOutlastsCooldown ==
    /\ scan.outstanding = 1
    /\ scan.now - scan.lastApiCallRef >= API_CALL_COOLDOWN
    /\ scan.uploads < input.uploads

\* the position the mapper builds for the valid predictions of a response to
\* the request of call
MappedPosition(call, response) ==
    detectionsToFEN(SelectSeq(response.predictions, validateDetection),
                    <<call.file.width>>, <<call.file.height>>)

\* C27: when a scan returns valid detections, the mapped position becomes the
\* current position, also when the legality parser refuses it (no king, or
\* several kings of one colour)
ScannedPositionShown ==
    [][op'.name = "Responded" /\ ~NothingDetected(op'.arg[2]) =>
          \A call \in {c \in scan.calls : c.id = op'.arg[1]} :
             BoardFieldOf(fen') = BoardFieldOf(MappedPosition(call, op'.arg[2]))]_vars

\* C28: in every state reached from the initial position by edits, Clear,
\* Reset, Flip, SwapColors, turn changes and castling toggles, whatever the
\* parser answers, the current FEN passes the structural validator
CurrentFenAlwaysValid == validateFENFormat(fen)

\* C29: a Move whose source and target are the same occupied square keeps the
\* piece: the board, the turn and the castling, en-passant, halfmove and
\* fullmove fields are the same after the call as before, and it returns true
MoveOntoItselfKeepsAll ==
    [][/\ op'.name = "Move"
       /\ op'.source = op'.target
       /\ PieceOn(fen, op'.source) # Null
       => /\ op'.ret = "true"
          /\ DecodedBoard(fen') = DecodedBoard(fen)
          /\ TurnOf(fen') = TurnOf(fen)
          /\ MetadataOf(fen') = MetadataOf(fen)]_vars

\* the uploads with every pending callback eventually called: the FileReader
\* loads, the image load and the HTTP response (or their errors)
SpecScanFair ==
    /\ InitScan
    /\ [][NextScan]_vars
    /\ WF_vars(\E call \in scan.calls : ContentLoaded(call))
    /\ WF_vars(\E call \in scan.calls : DataLoaded(call))
    /\ WF_vars(\E call \in scan.calls : ImageLoaded(call))
    /\ WF_vars(\E call \in scan.calls : Responded(call))

\* C30: every accepted upload eventually finishes: whenever the processing
\* flag is set, it is cleared again later, after a success, an invalid image,
\* an empty detection or a service error
UploadEventuallyFinishes ==
    scan.isProcessing ~> ~scan.isProcessing

\* a scan went through all its callbacks, its position was stored and the
\* processing flag is cleared
ScanCompleted ==
    /\ op.name = "Responded"
    /\ op.ret = "done"
    /\ scan.sent # {}
    /\ scan.calls = {}
    /\ ~scan.isProcessing

====
